---- MODULE Spec2Model ----
(***************************************************************************)
(* Document management of the legal-practice portal.                       *)
(*                                                                         *)
(* Two controllers implement the same feature and are both modelled:       *)
(*   variant "soft": backend/controllers/documentController.js, which      *)
(*                   runs multer inside the handler and soft-deletes;      *)
(*   variant "hard": unnamed/part_002, which expects multer as a route     *)
(*                   middleware and hard-deletes.                          *)
(* A deployment runs one of them; `variant` is chosen in Init and never    *)
(* changes.  Every handler is one atomic action; the failures of its       *)
(* database and file system calls are inputs of the action.                *)
(***************************************************************************)
EXTENDS Integers, Sequences, FiniteSets, TLC

\* ------------------------------------------------------------------ bounds
MaxRequests == 4      \* the clock stops here: MaxRequests - 1 requests are handled
MaxDocs     == 2      \* Document records ever created
MaxFiles    == 2      \* files ever written to the upload directory
MaxTotal    == 46     \* pagination sandbox: number of matching documents
MaxLimit    == 21     \* pagination sandbox: page size
MaxPage     == 4      \* pagination sandbox: page number

\* ------------------------------------------------------- program constants
DefaultLimit == 20
NoDate       == 0
Null         == "null"
Absent       == "undefined"

Lawyers  == {"L1", "L2"}
Clients  == {"K1", "K2", "K3"}
Contents == {"b1", "b22"}

\* The LawyerClient collection (maintained by the client controller, which
\* the document handlers only read).
LawyerClient ==
  { [lawyerId |-> "L1", clientId |-> "K1", status |-> "active",    isArchived |-> FALSE],
    [lawyerId |-> "L1", clientId |-> "K3", status |-> "active",    isArchived |-> TRUE],
    [lawyerId |-> "L2", clientId |-> "K1", status |-> "completed", isArchived |-> FALSE],
    [lawyerId |-> "L2", clientId |-> "K2", status |-> "pending",   isArchived |-> FALSE] }

allowedTypes == {"application/pdf", "text/plain", "image/png"}

ReviewStatuses == {"reviewed", "approved", "rejected"}

VARIABLES variant, now, docs, nextId, files, nextPath, res, deletedIds, sent, pg,
          inflight, served, fb, chat, ui

vars == <<variant, now, docs, nextId, files, nextPath, res, deletedIds, sent, pg,
          inflight, served, fb, chat, ui>>

\* ----------------------------------------------------------------- helpers
Min(a, b) == IF a < b THEN a ELSE b

Ceil(a, b) == (a + b - 1) \div b

RECURSIVE Ascending(_)
Ascending(S) ==
  IF S = {} THEN <<>>
  ELSE LET m == CHOOSE x \in S : \A y \in S : x <= y
       IN  <<m>> \o Ascending(S \ {m})

RECURSIVE Descending(_)
Descending(S) ==
  IF S = {} THEN <<>>
  ELSE LET m == CHOOSE x \in S : \A y \in S : x >= y
       IN  <<m>> \o Descending(S \ {m})

Range(s) == {s[i] : i \in 1..Len(s)}

FileSize(bytes) == IF bytes = "b1" THEN 1 ELSE 2

DefaultStatus(v) == IF v = "soft" THEN "pending_review" ELSE "new"

StatusInputs(v) == {DefaultStatus(v)} \cup ReviewStatuses

\* ------------------------------------------------------------------- text
\* The letters of the strings the requests carry.
Spell(s) ==
  CASE s = "t1"   -> <<"t", "1">>
    [] s = "t2"   -> <<"t", "2">>
    [] s = "f1"   -> <<"f", "1">>
    [] s = "Tax"  -> <<"T", "a", "x">>
    [] s = "Will" -> <<"W", "i", "l", "l">>
    [] s = "Deed" -> <<"D", "e", "e", "d">>
    [] s = "n1"   -> <<"n", "1">>
    [] s = "AX"   -> <<"A", "X">>
    [] s = "wil"  -> <<"w", "i", "l">>
    [] s = "eed"  -> <<"e", "e", "d">>
    [] s = "F1"   -> <<"F", "1">>
    [] s = "zz"   -> <<"z", "z">>
    [] s = ""     -> <<>>

\* Case folding, as the 'i' option of a regular expression does it.
Lower(c) ==
  CASE c = "A" -> "a"
    [] c = "D" -> "d"
    [] c = "F" -> "f"
    [] c = "T" -> "t"
    [] c = "W" -> "w"
    [] c = "X" -> "x"
    [] OTHER   -> c

Fold(w) == [i \in 1..Len(w) |-> Lower(w[i])]

Contains(w, part) ==
  \E k \in 0..(Len(w) - Len(part)) : SubSeq(w, k + 1, k + Len(part)) = part

\* { field: { $regex: term, $options: 'i' } } for a term without regular
\* expression operators; a missing field matches nothing.
RegexI(text, term) ==
  text # Null /\ Contains(Fold(Spell(text)), Fold(Spell(term)))

\* tags.split(',').map(tag => tag.trim()) of the tag lists the requests
\* carry.
SplitTags(s) ==
  CASE s = "Will"      -> {"Will"}
    [] s = "Will, Tax" -> {"Will", "Tax"}

\* ------------------------------------------------------------ the schema
SchemaDefaults(v) ==
  [ lawyerId |-> Null, clientId |-> Null, title |-> Null,
    description |-> Null, originalFileName |-> Null,
    filePath |-> 0, fileSize |-> 0, mimeType |-> Null,
    category |-> "other", priority |-> "medium", tags |-> {},
    status |-> DefaultStatus(v), uploadedBy |-> Null,
    reviewedBy |-> Null, reviewedAt |-> NoDate, reviewNotes |-> Null,
    isPublic |-> FALSE, isDeleted |-> FALSE, downloadCount |-> 0,
    lastDownloadedAt |-> NoDate, lastDownloadedBy |-> Null,
    lastAccessed |-> NoDate ]

\* Document.create(fields): the given paths over the schema defaults; paths
\* the schema does not know are dropped.
DocumentCreate(v, fields) ==
  [ f \in DOMAIN SchemaDefaults(v) |->
      IF f \in DOMAIN fields THEN fields[f] ELSE SchemaDefaults(v)[f] ]

\* pre('save'): stamps reviewedAt when the status was modified to reviewed
\* and no review date is set yet.
preSave(old, new, t) ==
  IF new.status # old.status /\ new.status = "reviewed" /\ new.reviewedAt = NoDate
  THEN [new EXCEPT !.reviewedAt = t]
  ELSE new

\* ---------------------------------------------------------- responses
\* `res` is the last request handled and the response it got: op, lawyer, id
\* and the last line of fields repeat the request, the others are the
\* response (code 0: no response was sent); scope is the client the stats of
\* the response were computed for.
NoPagination == [currentPage |-> 0, totalPages |-> 0, totalItems |-> 0,
                 hasNext |-> FALSE, hasPrev |-> FALSE]

NoStats == [totalDocuments |-> 0, totalSize |-> 0, byStatus |-> <<>>,
            byCategory |-> <<>>]

\* An update body that carries no field.
NoPatch == [title |-> Absent, description |-> Absent, category |-> Absent,
            priority |-> Absent, tags |-> Absent, status |-> Absent,
            reviewNotes |-> Absent]

NoRes == [op |-> "none", lawyer |-> Null, id |-> 0, code |-> 0, message |-> "",
          documents |-> <<>>, pagination |-> NoPagination, stats |-> NoStats,
          bytes |-> Null, data |-> SchemaDefaults("soft"), hasData |-> FALSE,
          clientId |-> Absent, reqIsPublic |-> FALSE, filePresent |-> FALSE,
          mimetype |-> Null, fault |-> "none", scope |-> Absent,
          patch |-> NoPatch, search |-> Absent]

\* The requests being handled step by step: per handler instance the step
\* it is at and the document object it loaded.
Procs == {"p1", "p2"}

Idle == [pc |-> "idle", op |-> "none", lawyer |-> Null, id |-> 0,
         doc |-> SchemaDefaults("soft"), patch |-> NoPatch]

Respond(op, lawyer, id, code, message) ==
  [NoRes EXCEPT !.op = op, !.lawyer = lawyer, !.id = id, !.code = code,
                !.message = message]

RespondData(op, lawyer, id, code, message, d) ==
  [Respond(op, lawyer, id, code, message) EXCEPT !.data = d, !.hasData = TRUE]

\* ------------------------------------------------------- lawyer feedback
\* The LawyerFeedback collection, the last response of the feedback API and
\* the state of the admin moderation page. A feedback id is its index in
\* store; isApproved is "true", "false" or Null.
MaxFeedback == 2      \* feedback records

MaxFeedbackOps == 4   \* the clock of the feedback API stops here

\* Users with role lawyer, and those of them whose status is approved.
FeedbackLawyers == {"L1", "L2", "L3"}

ApprovedLawyers == {"L1", "L2"}

NoFbRes == [op |-> "none", code |-> 0, message |-> "none", id |-> 0,
            lawyer |-> Null, given |-> Absent, list |-> {}]

NoPage == [action |-> "none", id |-> 0, toast |-> "none", feedback |-> {}]

FbInit == [store |-> <<>>, res |-> NoFbRes, page |-> NoPage]

\* ------------------------------------------------------------------ chat
\* LawyerMessages.tsx (and the same handlers in LawyerDashboard): the page
\* state selectedUserId and messages, the requests it has in flight, the
\* conversations kept by the chat API, and the millisecond clock that
\* Date.now() reads. A displayed message is [temp, id, userId]: temp entries
\* carry the id 'temp-' + Date.now(), the others the id the server gave.
MaxSends == 2         \* messages the lawyer sends

MaxSwitches == 2      \* conversation selections

MaxMs == 1            \* the millisecond clock runs from 0 to MaxMs

ChatUsers == {"U1", "U2"}

ChatInit == [selectedUserId |-> Null, messages |-> <<>>, reqs |-> <<>>,
             server |-> <<>>, ms |-> 0, sends |-> 0, switches |-> 0]

\* --------------------------------------------------- document list page
\* LawyerDocuments: the page state that fetchDocuments reads (page and the
\* client and status filters), what the page displays, and the fetches in
\* flight.
MaxChanges == 2       \* filter changes after mounting

NoListing == [documents |-> <<>>, pagination |-> NoPagination, stats |-> NoStats]

UiInit == [page |-> 1, clientId |-> "all", status |-> "all", shown |-> NoListing, reqs |-> <<>>,
           changes |-> 0, issued |-> 0, latest |-> "none"]

\* The document specifications run without the feedback API and with neither
\* page mounted.
InitRest ==
  /\ fb = Null
  /\ chat = Null
  /\ ui = Null

Init ==
  /\ variant \in {"soft", "hard"}
  /\ now = 1
  /\ docs = <<>>
  /\ nextId = 1
  /\ files = <<>>
  /\ nextPath = 1
  /\ res = NoRes
  /\ deletedIds = {}
  /\ sent = <<>>
  /\ pg = [total |-> 0, limit |-> 1, page |-> 1, done |-> FALSE, out |-> NoPagination]
  /\ inflight = [p \in Procs |-> Idle]
  /\ served = 0
  /\ InitRest

\* Every handled request advances the clock by one.
Clock == now < MaxRequests /\ now' = now + 1

\* ------------------------------------------------------------ file store
\* Mutant: the filter accepts every type.
fileFilterAny(mimetype) == TRUE

fileFilter(mimetype) == mimetype \in allowedTypes

\* fs.unlink: throws (and removes nothing) when the file is absent or the
\* call fails.
Unlink(fs, path, fails) ==
  IF fails \/ path \notin DOMAIN fs THEN fs
  ELSE [q \in DOMAIN fs \ {path} |-> fs[q]]

\* Mutant: the existence test always succeeds.
FileExistsAlways(fs, path) == TRUE

\* fs.access
FileExists(fs, path) == path \in DOMAIN fs

\* The file part of an upload request: none, one of a type the filter
\* refuses, or an accepted one with either content.
UploadFiles ==
  { [present |-> FALSE, mimetype |-> "application/pdf", bytes |-> "b1", originalname |-> "f1"],
    [present |-> TRUE,  mimetype |-> "text/html",       bytes |-> "b1", originalname |-> "f1"] }
  \cup [present : {TRUE}, mimetype : {"application/pdf"}, bytes : Contents,
         originalname : {"f1"}]

\* What goes wrong while a request is handled: nothing, the request fails
\* validation, or a database or file system call throws.
UploadFaults == {"none", "invalid", "create", "populate", "create+unlink", "populate+unlink"}
UpdateFaults == {"none", "invalid", "save", "populate"}

UploadBodies ==
  [ clientId : Clients, title : {"t1"}, isPublic : BOOLEAN, description : {Absent},
    category : {Absent}, priority : {Absent}, tags : {Absent} ]

\* ------------------------------------------------------------ uploadDocument
findRelationshipSoft(lawyer, client) ==
  {r \in LawyerClient :
     r.lawyerId = lawyer /\ r.clientId = client /\ r.isArchived = FALSE}

findRelationshipHard(lawyer, client) ==
  {r \in LawyerClient :
     r.lawyerId = lawyer /\ r.clientId = client /\ r.status \in {"active", "pending"}}

\* A field the body does not carry is undefined, and Document.create leaves
\* an undefined path at its schema default.
Given(x, default) == IF x = Absent THEN default ELSE x

CreateFieldsSoft(lawyer, body, file, path) ==
  [ lawyerId |-> lawyer, clientId |-> body.clientId, title |-> body.title,
    description |-> Given(body.description, Null),
    originalFileName |-> file.originalname,
    filePath |-> path, fileSize |-> FileSize(file.bytes),
    mimeType |-> file.mimetype,
    category |-> Given(body.category, "other"),
    priority |-> Given(body.priority, "medium"),
    tags |-> IF body.tags = Absent THEN {} ELSE SplitTags(body.tags),
    uploadedBy |-> lawyer ]

\* Mutant: the visibility flag is taken from the request body.
CreateFieldsHardTrusting(lawyer, body, file, path) ==
  [ lawyerId |-> lawyer, clientId |-> body.clientId, title |-> body.title,
    description |-> Given(body.description, Null),
    originalFileName |-> file.originalname,
    filePath |-> path, fileSize |-> FileSize(file.bytes),
    mimeType |-> file.mimetype,
    category |-> Given(body.category, "other"),
    tags |-> IF body.tags = Absent THEN {} ELSE SplitTags(body.tags),
    isPublic |-> body.isPublic, uploadedBy |-> lawyer ]

CreateFieldsHard(lawyer, body, file, path) ==
  [ lawyerId |-> lawyer, clientId |-> body.clientId, title |-> body.title,
    description |-> Given(body.description, Null),
    originalFileName |-> file.originalname,
    filePath |-> path, fileSize |-> FileSize(file.bytes),
    mimeType |-> file.mimetype,
    category |-> Given(body.category, "other"),
    tags |-> IF body.tags = Absent THEN {} ELSE SplitTags(body.tags),
    isPublic |-> FALSE, uploadedBy |-> lawyer ]

\* The request fields an upload leaves in `res`.
UploadEcho(r, body, file, fault) ==
  [r EXCEPT !.clientId = body.clientId, !.reqIsPublic = body.isPublic,
            !.filePresent = file.present, !.mimetype = file.mimetype,
            !.fault = fault]

\* Soft variant: validation, relationship check, then multer (filter, disk
\* write) and the record.  A failure inside the multer callback is rethrown
\* from the callback, where no handler catches it: no response is sent.
uploadDocumentSoft(lawyer, body, file, fault) ==
  /\ variant = "soft"
  /\ Clock
  /\ nextId <= MaxDocs
  /\ nextPath <= MaxFiles
  /\ LET valid         == fault # "invalid"
         createFails   == fault \in {"create", "create+unlink"}
         populateFails == fault \in {"populate", "populate+unlink"}
         unlinkFails   == fault \in {"create+unlink", "populate+unlink"}
         rel    == findRelationshipSoft(lawyer, body.clientId)
         stored == files @@ (nextPath :> file.bytes)
         doc    == DocumentCreate("soft", CreateFieldsSoft(lawyer, body, file, nextPath))
     IN
     IF ~valid THEN
       /\ res' = UploadEcho(Respond("upload", lawyer, 0, 400, "Validation errors"), body, file, fault)
       /\ UNCHANGED <<docs, nextId, files, nextPath>>
     ELSE IF rel = {} THEN
       /\ res' = UploadEcho(Respond("upload", lawyer, 0, 404, "Client relationship not found"), body, file, fault)
       /\ UNCHANGED <<docs, nextId, files, nextPath>>
     ELSE IF file.present /\ ~fileFilter(file.mimetype) THEN
       /\ res' = UploadEcho(Respond("upload", lawyer, 0, 400, "Invalid file type"), body, file, fault)
       /\ UNCHANGED <<docs, nextId, files, nextPath>>
     ELSE IF ~file.present THEN
       /\ res' = UploadEcho(Respond("upload", lawyer, 0, 400, "No file uploaded"), body, file, fault)
       /\ UNCHANGED <<docs, nextId, files, nextPath>>
     ELSE IF createFails THEN
       /\ files' = Unlink(stored, nextPath, unlinkFails)
       /\ nextPath' = nextPath + 1
       /\ res' = UploadEcho(Respond("upload", lawyer, 0, 0, ""), body, file, fault)
       /\ UNCHANGED <<docs, nextId>>
     ELSE IF populateFails THEN
       /\ docs' = docs @@ (nextId :> doc)
       /\ nextId' = nextId + 1
       /\ files' = Unlink(stored, nextPath, unlinkFails)
       /\ nextPath' = nextPath + 1
       /\ res' = UploadEcho(Respond("upload", lawyer, 0, 0, ""), body, file, fault)
     ELSE
       /\ docs' = docs @@ (nextId :> doc)
       /\ nextId' = nextId + 1
       /\ files' = stored
       /\ nextPath' = nextPath + 1
       /\ res' = UploadEcho(RespondData("upload", lawyer, nextId, 201,
                             "Document uploaded successfully", doc), body, file, fault)
  /\ UNCHANGED <<variant, deletedIds, sent, pg, inflight, served, fb, chat, ui>>

\* The upload route of the hard variant: multer runs as a middleware before
\* the handler, with the file filter of the upload configuration.
routeUpload(file) ==
  IF ~file.present THEN "nofile"
  ELSE IF ~fileFilter(file.mimetype) THEN "rejected"
  ELSE "stored"

\* Hard variant: the handler finds req.file already on disk.
uploadDocumentHard(lawyer, body, file, fault) ==
  /\ variant = "hard"
  /\ Clock
  /\ nextId <= MaxDocs
  /\ nextPath <= MaxFiles
  /\ LET valid         == fault # "invalid"
         createFails   == fault = "create"
         populateFails == fault = "populate"
         rel    == findRelationshipHard(lawyer, body.clientId)
         mw     == routeUpload(file)
         stored == IF mw = "stored" THEN files @@ (nextPath :> file.bytes) ELSE files
         path1  == IF mw = "stored" THEN nextPath + 1 ELSE nextPath
         doc    == DocumentCreate("hard", CreateFieldsHard(lawyer, body, file, nextPath))
     IN
     IF mw = "rejected" THEN
       /\ res' = UploadEcho(Respond("upload", lawyer, 0, 400, "Invalid file type"), body, file, fault)
       /\ UNCHANGED <<docs, nextId, files, nextPath>>
     ELSE
       /\ files' = stored
       /\ nextPath' = path1
       /\ IF ~valid THEN
            /\ res' = UploadEcho(Respond("upload", lawyer, 0, 400, "Validation errors"), body, file, fault)
            /\ UNCHANGED <<docs, nextId>>
          ELSE IF rel = {} THEN
            /\ res' = UploadEcho(Respond("upload", lawyer, 0, 404,
                              "Client relationship not found or inactive"), body, file, fault)
            /\ UNCHANGED <<docs, nextId>>
          ELSE IF mw = "nofile" THEN
            /\ res' = UploadEcho(Respond("upload", lawyer, 0, 400, "No file uploaded"), body, file, fault)
            /\ UNCHANGED <<docs, nextId>>
          ELSE IF createFails THEN
            /\ res' = UploadEcho(Respond("upload", lawyer, 0, 500, "Failed to upload document"), body, file, fault)
            /\ UNCHANGED <<docs, nextId>>
          ELSE IF populateFails THEN
            /\ docs' = docs @@ (nextId :> doc)
            /\ nextId' = nextId + 1
            /\ res' = UploadEcho(Respond("upload", lawyer, 0, 500, "Failed to upload document"), body, file, fault)
          ELSE
            /\ docs' = docs @@ (nextId :> doc)
            /\ nextId' = nextId + 1
            /\ res' = UploadEcho(RespondData("upload", lawyer, nextId, 201,
                                  "Document uploaded successfully", doc), body, file, fault)
  /\ UNCHANGED <<variant, deletedIds, sent, pg, inflight, served, fb, chat, ui>>

\* ------------------------------------------------------------ queries
\* Mutant: the lookup without the isDeleted filter.
FindOneSoftWithDeleted(lawyer, id) ==
  id \in DOMAIN docs /\ docs[id].lawyerId = lawyer

\* Document.findOne({_id, lawyerId, isDeleted: false})
FindOneSoft(lawyer, id) ==
  id \in DOMAIN docs /\ docs[id].lawyerId = lawyer /\ docs[id].isDeleted = FALSE

\* Mutant: the lookup by id alone.
FindOneHardAnyLawyer(lawyer, id) ==
  id \in DOMAIN docs

\* Document.findOne({_id, lawyerId})
FindOneHard(lawyer, id) ==
  id \in DOMAIN docs /\ docs[id].lawyerId = lawyer

\* The $or clause of getDocuments: title, description, tags.
SearchSoft(d, term) ==
  \/ RegexI(d.title, term)
  \/ RegexI(d.description, term)
  \/ \E t \in d.tags : RegexI(t, term)

\* The $or clause of getLawyerDocuments: title, description, original file
\* name.
SearchHard(d, term) ==
  \/ RegexI(d.title, term)
  \/ RegexI(d.description, term)
  \/ RegexI(d.originalFileName, term)

\* Mutant: the list query without the isDeleted filter.
QuerySoftWithDeleted(lawyer, q, d) ==
  /\ d.lawyerId = lawyer
  /\ (q.clientId # Absent => d.clientId = q.clientId)
  /\ (q.category # Absent => d.category = q.category)
  /\ (q.status # Absent => d.status = q.status)
  /\ (q.search # Absent => SearchSoft(d, q.search))

\* The query object built by getDocuments.
QuerySoft(lawyer, q, d) ==
  /\ d.lawyerId = lawyer
  /\ d.isDeleted = FALSE
  /\ (q.clientId # Absent => d.clientId = q.clientId)
  /\ (q.category # Absent => d.category = q.category)
  /\ (q.status # Absent => d.status = q.status)
  /\ (q.search # Absent => SearchSoft(d, q.search))

\* Mutant: the list query without the lawyerId restriction.
QueryHardAnyLawyer(lawyer, q, d) ==
  /\ ((q.status # Absent /\ q.status # "all") => d.status = q.status)
  /\ ((q.category # Absent /\ q.category # "all") => d.category = q.category)
  /\ ((q.clientId # Absent /\ q.clientId # "all") => d.clientId = q.clientId)
  /\ (q.search # Absent => SearchHard(d, q.search))

\* The query object built by getLawyerDocuments (its documentType is the
\* category field of the model).
QueryHard(lawyer, q, d) ==
  /\ d.lawyerId = lawyer
  /\ ((q.status # Absent /\ q.status # "all") => d.status = q.status)
  /\ ((q.category # Absent /\ q.category # "all") => d.category = q.category)
  /\ ((q.clientId # Absent /\ q.clientId # "all") => d.clientId = q.clientId)
  /\ (q.search # Absent => SearchHard(d, q.search))

\* .sort({createdAt: order}): ids are handed out in creation order.
SortByCreatedAt(S, sortOrder) ==
  IF sortOrder = "desc" THEN Descending(S) ELSE Ascending(S)

\* .skip(skip).limit(limit)
SkipLimit(seq, skip, limit) == SubSeq(seq, skip + 1, Min(Len(seq), skip + limit))

\* Mutant: the page count is rounded down.
PaginationFloor(page, limit, total, returned) ==
  LET skip == (page - 1) * limit
  IN  [ currentPage |-> page,
        totalPages  |-> total \div limit,
        totalItems  |-> total,
        hasNext     |-> skip + returned < total,
        hasPrev     |-> page > 1 ]

\* The pagination object of a list response.
Pagination(page, limit, total, returned) ==
  LET skip == (page - 1) * limit
  IN  [ currentPage |-> page,
        totalPages  |-> Ceil(total, limit),
        totalItems  |-> total,
        hasNext     |-> skip + returned < total,
        hasPrev     |-> page > 1 ]

\* find(query).sort().skip().limit() and countDocuments(query) over the
\* matching documents, as one list response.
ListPage(matching, page, limit) ==
  LET skip      == (page - 1) * limit
      documents == SkipLimit(matching, skip, limit)
      total     == Len(matching)
  IN  [ documents  |-> documents,
        pagination |-> Pagination(page, limit, total, Len(documents)) ]

RECURSIVE SumFileSize(_)
SumFileSize(S) ==
  IF S = {} THEN 0
  ELSE LET i == CHOOSE x \in S : TRUE
       IN  docs[i].fileSize + SumFileSize(S \ {i})

\* The aggregation over a matched set of documents.
Aggregate(M) ==
  IF M = {} THEN NoStats
  ELSE [ totalDocuments |-> Cardinality(M),
         totalSize      |-> SumFileSize(M),
         byStatus       |-> [ s \in {docs[i].status : i \in M} |->
                                Cardinality({i \in M : docs[i].status = s}) ],
         byCategory     |-> [ c \in {docs[i].category : i \in M} |->
                                Cardinality({i \in M : docs[i].category = c}) ] ]

\* Document.getDocumentStats(lawyerId, clientId)
getDocumentStats(lawyer, clientId) ==
  Aggregate({i \in DOMAIN docs :
               /\ docs[i].lawyerId = lawyer
               /\ docs[i].isDeleted = FALSE
               /\ (clientId # Absent => docs[i].clientId = clientId)})

\* Document.getLawyerDocumentStats(lawyerId)
getLawyerDocumentStats(lawyer) ==
  Aggregate({i \in DOMAIN docs : docs[i].lawyerId = lawyer})

\* Document.getClientDocumentStats(lawyerId, clientId)
getClientDocumentStats(lawyer, clientId) ==
  Aggregate({i \in DOMAIN docs :
               docs[i].lawyerId = lawyer /\ docs[i].clientId = clientId})

\* Query strings of a list request: pages of one and of the default size
\* with and without a client filter, and the status filter and ascending
\* order on the default page.
ListQueries(v) ==
  [ page : {1, 2}, limit : {1, DefaultLimit}, clientId : {Absent, "K1"},
    status : {Absent}, category : {Absent}, search : {Absent}, sortOrder : {"desc"} ]
  \cup [ page : {1}, limit : {DefaultLimit},
         clientId : {Absent} \cup (IF v = "hard" THEN {"all"} ELSE {}),
         status : {"approved"} \cup (IF v = "hard" THEN {"all"} ELSE {}),
         category : {Absent}, search : {Absent}, sortOrder : {"asc"} ]

\* ------------------------------------------------------------ list
getDocuments(lawyer, q, dbFails) ==
  /\ variant = "soft"
  /\ Clock
  /\ LET matching == SortByCreatedAt({i \in DOMAIN docs : QuerySoft(lawyer, q, docs[i])},
                                     q.sortOrder)
         page     == ListPage(matching, q.page, q.limit)
     IN  res' = IF dbFails
                THEN Respond("list", lawyer, 0, 500, "Failed to fetch documents")
                ELSE [Respond("list", lawyer, 0, 200, "") EXCEPT
                        !.documents = page.documents,
                        !.pagination = page.pagination,
                        !.stats = getDocumentStats(lawyer, q.clientId),
                        !.scope = q.clientId,
                        !.clientId = q.clientId,
                        !.search = q.search]
  /\ UNCHANGED <<variant, docs, nextId, files, nextPath, deletedIds, sent, pg, inflight, served, fb, chat, ui>>

getLawyerDocuments(lawyer, q, dbFails) ==
  /\ variant = "hard"
  /\ Clock
  /\ LET matching == SortByCreatedAt({i \in DOMAIN docs : QueryHard(lawyer, q, docs[i])},
                                     q.sortOrder)
         page     == ListPage(matching, q.page, q.limit)
     IN  res' = IF dbFails
                THEN Respond("list", lawyer, 0, 500, "Failed to fetch documents")
                ELSE [Respond("list", lawyer, 0, 200, "") EXCEPT
                        !.documents = page.documents,
                        !.pagination = page.pagination,
                        !.stats = getLawyerDocumentStats(lawyer),
                        !.clientId = q.clientId,
                        !.search = q.search]
  /\ UNCHANGED <<variant, docs, nextId, files, nextPath, deletedIds, sent, pg, inflight, served, fb, chat, ui>>

\* ------------------------------------------------------------ stats
getDocumentStatsSoft(lawyer, clientId, dbFails) ==
  /\ variant = "soft"
  /\ Clock
  /\ res' = IF dbFails
            THEN Respond("stats", lawyer, 0, 500, "Failed to fetch document statistics")
            ELSE [Respond("stats", lawyer, 0, 200, "") EXCEPT
                    !.stats = getDocumentStats(lawyer, clientId),
                    !.scope = clientId,
                    !.clientId = clientId]
  /\ UNCHANGED <<variant, docs, nextId, files, nextPath, deletedIds, sent, pg, inflight, served, fb, chat, ui>>

getDocumentStatsHard(lawyer, clientId, dbFails) ==
  /\ variant = "hard"
  /\ Clock
  /\ res' = IF dbFails
            THEN Respond("stats", lawyer, 0, 500, "Failed to fetch document statistics")
            ELSE [Respond("stats", lawyer, 0, 200, "") EXCEPT
                    !.stats = IF clientId # Absent
                              THEN getClientDocumentStats(lawyer, clientId)
                              ELSE getLawyerDocumentStats(lawyer),
                    !.scope = clientId,
                    !.clientId = clientId]
  /\ UNCHANGED <<variant, docs, nextId, files, nextPath, deletedIds, sent, pg, inflight, served, fb, chat, ui>>

\* ------------------------------------------------------------ getDocumentById
getDocumentByIdSoft(lawyer, id) ==
  /\ variant = "soft"
  /\ Clock
  /\ res' = IF ~FindOneSoft(lawyer, id)
            THEN Respond("get", lawyer, id, 404, "Document not found")
            ELSE RespondData("get", lawyer, id, 200, "", docs[id])
  /\ UNCHANGED <<variant, docs, nextId, files, nextPath, deletedIds, sent, pg, inflight, served, fb, chat, ui>>

\* The hard variant stamps lastAccessed and saves on every fetch.
getDocumentByIdHard(lawyer, id, saveFails) ==
  /\ variant = "hard"
  /\ Clock
  /\ IF ~FindOneHard(lawyer, id) THEN
       /\ res' = Respond("get", lawyer, id, 404, "Document not found")
       /\ UNCHANGED docs
     ELSE IF saveFails THEN
       /\ res' = Respond("get", lawyer, id, 500, "Failed to fetch document")
       /\ UNCHANGED docs
     ELSE
       LET d == preSave(docs[id], [docs[id] EXCEPT !.lastAccessed = now], now)
       IN  /\ docs' = [docs EXCEPT ![id] = d]
           /\ res' = RespondData("get", lawyer, id, 200, "", d)
  /\ UNCHANGED <<variant, nextId, files, nextPath, deletedIds, sent, pg, inflight, served, fb, chat, ui>>

\* ------------------------------------------------------------ downloadDocument
Deliver(id, bytes) ==
  IF id \in DOMAIN sent THEN [sent EXCEPT ![id] = @ \cup {bytes}]
  ELSE sent @@ (id :> {bytes})

\* Mutant: the counter is assigned instead of incremented.
BumpSoftAssign(d, lawyer, t) ==
  [d EXCEPT !.downloadCount = 1, !.lastDownloadedAt = t,
            !.lastDownloadedBy = lawyer]

\* The download statistics written before the file is streamed.
BumpSoft(d, lawyer, t) ==
  [d EXCEPT !.downloadCount = @ + 1, !.lastDownloadedAt = t,
            !.lastDownloadedBy = lawyer]

BumpHard(d, lawyer, t) ==
  [d EXCEPT !.downloadCount = @ + 1, !.lastAccessed = t]

\* The file the response streams; a read stream on a missing file delivers
\* nothing.
StreamedFile(d) == IF d.filePath \in DOMAIN files THEN files[d.filePath] ELSE Null

downloadDocumentSoft(lawyer, id, saveFails) ==
  /\ variant = "soft"
  /\ Clock
  /\ IF ~FindOneSoft(lawyer, id) THEN
       /\ res' = Respond("download", lawyer, id, 404, "Document not found")
       /\ UNCHANGED <<docs, sent>>
     ELSE IF ~FileExists(files, docs[id].filePath) THEN
       /\ res' = Respond("download", lawyer, id, 404, "Document file not found")
       /\ UNCHANGED <<docs, sent>>
     ELSE IF saveFails THEN
       /\ res' = [Respond("download", lawyer, id, 500, "Failed to download document")
                   EXCEPT !.fault = "save"]
       /\ UNCHANGED <<docs, sent>>
     ELSE
       LET d == preSave(docs[id], BumpSoft(docs[id], lawyer, now), now)
       IN  /\ docs' = [docs EXCEPT ![id] = d]
           /\ res' = [Respond("download", lawyer, id, 200, "") EXCEPT
                        !.bytes = StreamedFile(d)]
           /\ sent' = Deliver(id, StreamedFile(d))
  /\ UNCHANGED <<variant, nextId, files, nextPath, deletedIds, pg, inflight, served, fb, chat, ui>>

downloadDocumentHard(lawyer, id, saveFails) ==
  /\ variant = "hard"
  /\ Clock
  /\ IF ~FindOneHard(lawyer, id) THEN
       /\ res' = Respond("download", lawyer, id, 404, "Document not found")
       /\ UNCHANGED <<docs, sent>>
     ELSE IF ~FileExists(files, docs[id].filePath) THEN
       /\ res' = Respond("download", lawyer, id, 404, "File not found on server")
       /\ UNCHANGED <<docs, sent>>
     ELSE IF saveFails THEN
       /\ res' = [Respond("download", lawyer, id, 500, "Failed to download document")
                   EXCEPT !.fault = "save"]
       /\ UNCHANGED <<docs, sent>>
     ELSE
       LET d == preSave(docs[id], BumpHard(docs[id], lawyer, now), now)
       IN  /\ docs' = [docs EXCEPT ![id] = d]
           /\ res' = [Respond("download", lawyer, id, 200, "") EXCEPT
                        !.bytes = StreamedFile(d)]
           /\ sent' = Deliver(id, StreamedFile(d))
  /\ UNCHANGED <<variant, nextId, files, nextPath, deletedIds, pg, inflight, served, fb, chat, ui>>

\* ------------------------------------------------------------ updateDocument
\* Request bodies of an update: every status with and without review notes,
\* and a change of title alone or with a status.
UpdatePatches(v) ==
  [ title : {Absent}, status : {Absent} \cup StatusInputs(v), reviewNotes : {Absent, "n1"},
    description : {Absent}, category : {Absent}, priority : {Absent}, tags : {Absent} ]
  \cup [ title : {"t2"}, status : {Absent, "approved"}, reviewNotes : {Absent},
         description : {Absent}, category : {Absent}, priority : {Absent}, tags : {Absent} ]

\* `if (x)`: undefined and the empty string are both skipped.
Truthy(x) == x # Absent /\ x # ""

\* The request fields an update that found its document leaves in `res`.
UpdateEcho(r, patch, fault) == [r EXCEPT !.patch = patch, !.fault = fault]

\* Mutant: the description is written whether or not the body carries one.
AssignFieldsSoftOverwrite(d, patch) ==
  LET a == IF Truthy(patch.title) THEN [d EXCEPT !.title = patch.title] ELSE d
      b == [a EXCEPT !.description = Given(patch.description, Null)]
      c == IF Truthy(patch.category) THEN [b EXCEPT !.category = patch.category] ELSE b
      e == IF Truthy(patch.priority) THEN [c EXCEPT !.priority = patch.priority] ELSE c
  IN  IF Truthy(patch.tags) THEN [e EXCEPT !.tags = SplitTags(patch.tags)] ELSE e

\* The plain fields of the soft variant.
AssignFieldsSoft(d, patch) ==
  LET a == IF Truthy(patch.title) THEN [d EXCEPT !.title = patch.title] ELSE d
      b == IF patch.description # Absent
           THEN [a EXCEPT !.description = patch.description] ELSE a
      c == IF Truthy(patch.category) THEN [b EXCEPT !.category = patch.category] ELSE b
      e == IF Truthy(patch.priority) THEN [c EXCEPT !.priority = patch.priority] ELSE c
  IN  IF Truthy(patch.tags) THEN [e EXCEPT !.tags = SplitTags(patch.tags)] ELSE e

\* The plain fields of the hard variant.
AssignFieldsHard(d, patch) ==
  LET a == IF patch.title # Absent THEN [d EXCEPT !.title = patch.title] ELSE d
      b == IF patch.description # Absent
           THEN [a EXCEPT !.description = patch.description] ELSE a
      c == IF patch.category # Absent THEN [b EXCEPT !.category = patch.category] ELSE b
  IN  IF patch.tags # Absent THEN [c EXCEPT !.tags = SplitTags(patch.tags)] ELSE c

\* The field assignments of the soft variant, in source order: the review
\* test reads document.status after the patch has been written to it.
AssignSoft(d, patch, lawyer, t) ==
  LET d1 == AssignFieldsSoft(d, patch)
      d2 == IF Truthy(patch.status) THEN [d1 EXCEPT !.status = patch.status] ELSE d1
      d3 == IF patch.reviewNotes # Absent
            THEN [d2 EXCEPT !.reviewNotes = patch.reviewNotes] ELSE d2
  IN  IF patch.status = "reviewed" /\ d3.status # "reviewed"
      THEN [d3 EXCEPT !.reviewedBy = lawyer, !.reviewedAt = t]
      ELSE d3

\* Mutant: the review stamp is written whenever a review status is sent,
\* also when it is the status the document already has.
AssignHardAlwaysStamp(d, patch, lawyer, t) ==
  LET d1 == AssignFieldsHard(d, patch)
  IN  IF patch.status # Absent
      THEN LET d2 == [d1 EXCEPT !.status = patch.status]
           IN  IF patch.status \in {"reviewed", "approved", "rejected"}
               THEN LET d3 == [d2 EXCEPT !.reviewedBy = lawyer, !.reviewedAt = t]
                    IN  IF patch.reviewNotes # Absent
                        THEN [d3 EXCEPT !.reviewNotes = patch.reviewNotes]
                        ELSE d3
               ELSE d2
      ELSE d1

\* The field assignments of the hard variant.
AssignHard(d, patch, lawyer, t) ==
  LET d1 == AssignFieldsHard(d, patch)
  IN  IF patch.status # Absent /\ patch.status # d1.status
      THEN LET d2 == [d1 EXCEPT !.status = patch.status]
           IN  IF patch.status \in {"reviewed", "approved", "rejected"}
               THEN LET d3 == [d2 EXCEPT !.reviewedBy = lawyer, !.reviewedAt = t]
                    IN  IF patch.reviewNotes # Absent
                        THEN [d3 EXCEPT !.reviewNotes = patch.reviewNotes]
                        ELSE d3
               ELSE d2
      ELSE d1

updateDocumentSoft(lawyer, id, patch, fault) ==
  /\ variant = "soft"
  /\ Clock
  /\ IF fault = "invalid" THEN
       /\ res' = [Respond("update", lawyer, id, 400, "Validation errors") EXCEPT !.fault = fault]
       /\ UNCHANGED docs
     ELSE IF ~FindOneSoft(lawyer, id) THEN
       /\ res' = Respond("update", lawyer, id, 404, "Document not found")
       /\ UNCHANGED docs
     ELSE IF fault = "save" THEN
       /\ res' = UpdateEcho(Respond("update", lawyer, id, 500, "Failed to update document"), patch, fault)
       /\ UNCHANGED docs
     ELSE
       LET d == preSave(docs[id], AssignSoft(docs[id], patch, lawyer, now), now)
       IN  /\ docs' = [docs EXCEPT ![id] = d]
           /\ res' = IF fault = "populate"
                     THEN UpdateEcho(Respond("update", lawyer, id, 500, "Failed to update document"), patch, fault)
                     ELSE UpdateEcho(RespondData("update", lawyer, id, 200,
                                        "Document updated successfully", d), patch, fault)
  /\ UNCHANGED <<variant, nextId, files, nextPath, deletedIds, sent, pg, inflight, served, fb, chat, ui>>

updateDocumentHard(lawyer, id, patch, fault) ==
  /\ variant = "hard"
  /\ Clock
  /\ IF ~FindOneHard(lawyer, id) THEN
       /\ res' = Respond("update", lawyer, id, 404, "Document not found")
       /\ UNCHANGED docs
     ELSE IF fault = "save" THEN
       /\ res' = UpdateEcho(Respond("update", lawyer, id, 500, "Failed to update document"), patch, fault)
       /\ UNCHANGED docs
     ELSE
       LET d == preSave(docs[id], AssignHard(docs[id], patch, lawyer, now), now)
       IN  /\ docs' = [docs EXCEPT ![id] = d]
           /\ res' = IF fault = "populate"
                     THEN UpdateEcho(Respond("update", lawyer, id, 500, "Failed to update document"), patch, fault)
                     ELSE UpdateEcho(RespondData("update", lawyer, id, 200,
                                        "Document updated successfully", d), patch, fault)
  /\ UNCHANGED <<variant, nextId, files, nextPath, deletedIds, sent, pg, inflight, served, fb, chat, ui>>

\* ------------------------------------------------------------ deleteDocument
deleteDocumentSoft(lawyer, id, saveFails) ==
  /\ variant = "soft"
  /\ Clock
  /\ IF ~FindOneSoft(lawyer, id) THEN
       /\ res' = Respond("delete", lawyer, id, 404, "Document not found")
       /\ UNCHANGED <<docs, deletedIds>>
     ELSE IF saveFails THEN
       /\ res' = Respond("delete", lawyer, id, 500, "Failed to delete document")
       /\ UNCHANGED <<docs, deletedIds>>
     ELSE
       /\ docs' = [docs EXCEPT ![id] =
                     preSave(docs[id], [docs[id] EXCEPT !.isDeleted = TRUE], now)]
       /\ deletedIds' = deletedIds \cup {id}
       /\ res' = Respond("delete", lawyer, id, 200, "Document deleted successfully")
  /\ UNCHANGED <<variant, nextId, files, nextPath, sent, pg, inflight, served, fb, chat, ui>>

\* Document.findByIdAndDelete(id)
RemoveRecord(id) == [i \in DOMAIN docs \ {id} |-> docs[i]]

\* Mutant: a failed unlink ends the handler like a failed database call.
DeleteReachesRecordStrict(unlinkThrew, dbFails) == ~unlinkThrew /\ ~dbFails

\* The unlink sits in its own try/catch, which only logs: the handler goes
\* on to findByIdAndDelete whether or not the file was removed.
DeleteReachesRecord(unlinkThrew, dbFails) == ~dbFails

deleteDocumentHard(lawyer, id, unlinkFails, dbFails) ==
  /\ variant = "hard"
  /\ Clock
  /\ IF ~FindOneHard(lawyer, id) THEN
       /\ res' = Respond("delete", lawyer, id, 404, "Document not found")
       /\ UNCHANGED <<docs, files, deletedIds>>
     ELSE
       LET unlinkThrew == unlinkFails \/ ~FileExists(files, docs[id].filePath)
           fault == IF dbFails THEN "db" ELSE IF unlinkThrew THEN "unlink" ELSE "none"
       IN
       /\ files' = Unlink(files, docs[id].filePath, unlinkFails)
       /\ IF DeleteReachesRecord(unlinkThrew, dbFails) THEN
            /\ docs' = RemoveRecord(id)
            /\ deletedIds' = deletedIds \cup {id}
            /\ res' = [Respond("delete", lawyer, id, 200, "Document deleted successfully")
                        EXCEPT !.fault = fault]
          ELSE
            /\ res' = [Respond("delete", lawyer, id, 500, "Failed to delete document")
                        EXCEPT !.fault = fault]
            /\ UNCHANGED <<docs, deletedIds>>
  /\ UNCHANGED <<variant, nextId, nextPath, sent, pg, inflight, served, fb, chat, ui>>

\* ------------------------------------------------------------ pagination alone
\* A list request over `total` matching documents, nothing else happening.
paginate ==
  /\ ~pg.done
  /\ pg' = [pg EXCEPT !.done = TRUE,
                      !.out = ListPage(Ascending(1..pg.total), pg.page, pg.limit).pagination]
  /\ UNCHANGED <<variant, now, docs, nextId, files, nextPath, res, deletedIds, sent,
                 inflight, served, fb, chat, ui>>

InitPage ==
  /\ variant = "soft"
  /\ now = 1
  /\ docs = <<>>
  /\ nextId = 1
  /\ files = <<>>
  /\ nextPath = 1
  /\ res = NoRes
  /\ deletedIds = {}
  /\ sent = <<>>
  /\ pg \in [total : 0..MaxTotal, limit : 1..MaxLimit, page : 1..MaxPage,
             done : {FALSE}, out : {NoPagination}]
  /\ inflight = [p \in Procs |-> Idle]
  /\ served = 0
  /\ InitRest

NextPage == paginate

SpecPage == InitPage /\ [][NextPage]_vars

DocIds == 1..MaxDocs

\* ------------------------------------------------------------ requests
\* The requests the environment sends.  A fault is combined with one
\* representative request only, a request without fault with every input.
GoodFiles == [present : {TRUE}, mimetype : {"application/pdf"}, bytes : Contents,
              originalname : {"f1"}]

UploadRequests(v) ==
  [ lawyer : Lawyers, body : UploadBodies, file : GoodFiles, fault : {"none"} ]
  \cup [ lawyer : Lawyers, body : {b \in UploadBodies : b.isPublic},
         file : UploadFiles \ GoodFiles, fault : {"none"} ]
  \cup [ lawyer : Lawyers, body : {b \in UploadBodies : b.isPublic},
         file : {[present |-> TRUE, mimetype |-> "application/pdf", bytes |-> "b1",
                  originalname |-> "f1"]},
         fault : IF v = "soft" THEN UploadFaults \ {"none"}
                 ELSE {"invalid", "create", "populate"} ]

UpdateRequests(v) ==
  [ lawyer : Lawyers, id : DocIds, patch : UpdatePatches(v), fault : {"none"} ]
  \cup [ lawyer : Lawyers, id : DocIds,
         patch : {[NoPatch EXCEPT !.status = "approved"]},
         fault : IF v = "soft" THEN UpdateFaults \ {"none"} ELSE {"save", "populate"} ]

ListRequests(v) ==
  [ lawyer : Lawyers, q : ListQueries(v), dbFails : {FALSE} ]
  \cup [ lawyer : Lawyers,
         q : {[page |-> 1, limit |-> DefaultLimit, clientId |-> Absent,
               status |-> Absent, category |-> Absent, search |-> Absent,
               sortOrder |-> "desc"]},
         dbFails : {TRUE} ]

StatsRequests ==
  [ lawyer : Lawyers, clientId : {Absent, "K1"}, dbFails : {FALSE} ]
  \cup [ lawyer : Lawyers, clientId : {Absent}, dbFails : {TRUE} ]

Next ==
  \/ \E r \in UploadRequests("soft") : uploadDocumentSoft(r.lawyer, r.body, r.file, r.fault)
  \/ \E r \in UploadRequests("hard") : uploadDocumentHard(r.lawyer, r.body, r.file, r.fault)
  \/ \E r \in ListRequests("soft") : getDocuments(r.lawyer, r.q, r.dbFails)
  \/ \E r \in ListRequests("hard") : getLawyerDocuments(r.lawyer, r.q, r.dbFails)
  \/ \E r \in StatsRequests : getDocumentStatsSoft(r.lawyer, r.clientId, r.dbFails)
  \/ \E r \in StatsRequests : getDocumentStatsHard(r.lawyer, r.clientId, r.dbFails)
  \/ \E l \in Lawyers, id \in DocIds : getDocumentByIdSoft(l, id)
  \/ \E l \in Lawyers, id \in DocIds, sf \in BOOLEAN : getDocumentByIdHard(l, id, sf)
  \/ \E l \in Lawyers, id \in DocIds, sf \in BOOLEAN : downloadDocumentSoft(l, id, sf)
  \/ \E l \in Lawyers, id \in DocIds, sf \in BOOLEAN : downloadDocumentHard(l, id, sf)
  \/ \E r \in UpdateRequests("soft") : updateDocumentSoft(r.lawyer, r.id, r.patch, r.fault)
  \/ \E r \in UpdateRequests("hard") : updateDocumentHard(r.lawyer, r.id, r.patch, r.fault)
  \/ \E l \in Lawyers, id \in DocIds, sf \in BOOLEAN : deleteDocumentSoft(l, id, sf)
  \/ \E l \in Lawyers, id \in DocIds, uf \in BOOLEAN, df \in BOOLEAN :
       deleteDocumentHard(l, id, uf, df)

Spec == Init /\ [][Next]_vars

\* ------------------------------------------------------------ search alone
\* A store that holds one uploaded document of lawyer L1 with any text in
\* its searchable fields, and nothing but list requests with a search term.
SearchBodies ==
  [ clientId : {"K1"}, title : {"t1", "Tax"}, isPublic : {FALSE},
    description : {Absent, "Deed"}, category : {Absent}, priority : {Absent},
    tags : {Absent, "Will", "Will, Tax"} ]

SearchFiles ==
  [ present : {TRUE}, mimetype : {"application/pdf"}, bytes : {"b1"},
    originalname : {"f1", "Will"} ]

SearchTerms == {"AX", "wil", "eed", "F1", "zz"}

SearchQueries ==
  [ page : {1}, limit : {DefaultLimit}, clientId : {Absent}, status : {Absent},
    category : {Absent}, search : SearchTerms, sortOrder : {"desc"} ]

InitSearch ==
  /\ variant \in {"soft", "hard"}
  /\ now = 1
  /\ \E body \in SearchBodies, file \in SearchFiles :
       docs = (1 :> DocumentCreate(variant,
                      IF variant = "soft"
                      THEN CreateFieldsSoft("L1", body, file, 1)
                      ELSE CreateFieldsHard("L1", body, file, 1)))
  /\ nextId = 2
  /\ files = (1 :> "b1")
  /\ nextPath = 2
  /\ res = NoRes
  /\ deletedIds = {}
  /\ sent = <<>>
  /\ pg = [total |-> 0, limit |-> 1, page |-> 1, done |-> FALSE, out |-> NoPagination]
  /\ inflight = [p \in Procs |-> Idle]
  /\ served = 0
  /\ InitRest

NextSearch ==
  \/ \E l \in Lawyers, q \in SearchQueries : getDocuments(l, q, FALSE)
  \/ \E l \in Lawyers, q \in SearchQueries : getLawyerDocuments(l, q, FALSE)

SpecSearch == InitSearch /\ [][NextSearch]_vars

\* ------------------------------------------------------------ update alone
\* A store that holds one uploaded document of lawyer L1 with any content,
\* and one update request with any combination of body fields.
UpdateBodies ==
  [ clientId : {"K1"}, title : {"t1"}, isPublic : {FALSE},
    description : {Absent, "Tax"}, category : {Absent, "evidence"},
    priority : {Absent, "urgent"}, tags : {Absent, "Will"} ]

FullPatches ==
  [ title : {Absent, "Deed"}, description : {Absent, "", "Deed"},
    category : {Absent, "contract"}, priority : {Absent, "high"},
    tags : {Absent, "Will, Tax"}, status : {Absent, "reviewed", "approved"},
    reviewNotes : {Absent, "n1"} ]

InitUpdate ==
  /\ variant \in {"soft", "hard"}
  /\ now = MaxRequests - 1
  /\ \E body \in UpdateBodies, file \in GoodFiles :
       /\ docs = (1 :> DocumentCreate(variant,
                         IF variant = "soft"
                         THEN CreateFieldsSoft("L1", body, file, 1)
                         ELSE CreateFieldsHard("L1", body, file, 1)))
       /\ files = (1 :> file.bytes)
  /\ nextId = 2
  /\ nextPath = 2
  /\ res = NoRes
  /\ deletedIds = {}
  /\ sent = <<>>
  /\ pg = [total |-> 0, limit |-> 1, page |-> 1, done |-> FALSE, out |-> NoPagination]
  /\ inflight = [p \in Procs |-> Idle]
  /\ served = 0
  /\ InitRest

NextUpdate ==
  \/ \E l \in Lawyers, patch \in FullPatches : updateDocumentSoft(l, 1, patch, "none")
  \/ \E l \in Lawyers, patch \in FullPatches : updateDocumentHard(l, 1, patch, "none")

SpecUpdate == InitUpdate /\ [][NextUpdate]_vars

\* ------------------------------------------------------- handlers in steps
\* The by-id handlers as the event loop runs them: every await is a point
\* where another request may run.  A handler instance loads the record
\* (findOne), a download then tests the file (fs.access), and the handler
\* saves the object it loaded.  The store holds one uploaded document.
FindOne(lawyer, id) ==
  IF variant = "soft" THEN FindOneSoft(lawyer, id) ELSE FindOneHard(lawyer, id)

\* document.save(): the paths assigned a new value since the load are
\* written over the stored record, every other path stays as stored.
SaveModified(stored, loaded, assigned) ==
  [ f \in DOMAIN stored |-> IF assigned[f] # loaded[f] THEN assigned[f] ELSE stored[f] ]

ConcPatches ==
  { [NoPatch EXCEPT !.status = "approved"],
    [NoPatch EXCEPT !.title = "t2"],
    [NoPatch EXCEPT !.title = "t1"],
    [NoPatch EXCEPT !.reviewNotes = "n1"] }

ConcOps == {"get", "download", "update", "delete"}

\* await Document.findOne(...)
Load(p, op, lawyer, id, patch) ==
  /\ inflight[p].pc = "idle"
  /\ Clock
  /\ IF ~FindOne(lawyer, id) THEN
       /\ res' = Respond(op, lawyer, id, 404, "Document not found")
       /\ UNCHANGED inflight
     ELSE IF op = "get" /\ variant = "soft" THEN
       /\ res' = RespondData("get", lawyer, id, 200, "", docs[id])
       /\ UNCHANGED inflight
     ELSE
       /\ inflight' = [inflight EXCEPT ![p] =
                         [pc |-> "loaded", op |-> op, lawyer |-> lawyer, id |-> id,
                          doc |-> docs[id], patch |-> patch]]
       /\ UNCHANGED res
  /\ UNCHANGED <<variant, docs, nextId, files, nextPath, deletedIds, sent, pg, served, fb, chat, ui>>

\* await fs.access(document.filePath)
Access(p) ==
  LET r == inflight[p] IN
  /\ r.pc = "loaded"
  /\ r.op = "download"
  /\ IF FileExists(files, r.doc.filePath) THEN
       /\ inflight' = [inflight EXCEPT ![p].pc = "checked"]
       /\ UNCHANGED res
     ELSE
       /\ inflight' = [inflight EXCEPT ![p] = Idle]
       /\ res' = Respond("download", r.lawyer, r.id, 404,
                         IF variant = "soft" THEN "Document file not found"
                         ELSE "File not found on server")
  /\ UNCHANGED <<variant, now, docs, nextId, files, nextPath, deletedIds, sent, pg, served, fb, chat, ui>>

\* The assignments a handler makes to the object it loaded.
Assigned(r) ==
  LET d == r.doc IN
  preSave(d,
          CASE r.op = "download" -> IF variant = "soft" THEN BumpSoft(d, r.lawyer, now)
                                    ELSE BumpHard(d, r.lawyer, now)
            [] r.op = "update"   -> IF variant = "soft" THEN AssignSoft(d, r.patch, r.lawyer, now)
                                    ELSE AssignHard(d, r.patch, r.lawyer, now)
            [] r.op = "get"      -> [d EXCEPT !.lastAccessed = now]
            [] r.op = "delete"   -> [d EXCEPT !.isDeleted = TRUE],
          now)

\* await document.save(), then the response.  A record removed since the
\* load makes save() throw.
Save(p) ==
  LET r == inflight[p] IN
  /\ \/ r.pc = "loaded" /\ r.op \in {"update", "get"}
     \/ r.pc = "loaded" /\ r.op = "delete" /\ variant = "soft"
     \/ r.pc = "checked"
  /\ inflight' = [inflight EXCEPT ![p] = Idle]
  /\ IF r.id \notin DOMAIN docs THEN
       /\ res' = Respond(r.op, r.lawyer, r.id, 500,
                         CASE r.op = "download" -> "Failed to download document"
                           [] r.op = "update"   -> "Failed to update document"
                           [] r.op = "get"      -> "Failed to fetch document"
                           [] r.op = "delete"   -> "Failed to delete document")
       /\ UNCHANGED <<docs, deletedIds, sent, served>>
     ELSE
       LET d == SaveModified(docs[r.id], r.doc, Assigned(r)) IN
       /\ docs' = [docs EXCEPT ![r.id] = d]
       /\ CASE r.op = "download" ->
                 /\ res' = [Respond("download", r.lawyer, r.id, 200, "") EXCEPT
                              !.bytes = StreamedFile(r.doc)]
                 /\ sent' = Deliver(r.id, StreamedFile(r.doc))
                 /\ served' = served + 1
                 /\ UNCHANGED deletedIds
            [] r.op = "update" ->
                 /\ res' = UpdateEcho(RespondData("update", r.lawyer, r.id, 200,
                                        "Document updated successfully", Assigned(r)),
                                      r.patch, "none")
                 /\ UNCHANGED <<deletedIds, sent, served>>
            [] r.op = "get" ->
                 /\ res' = RespondData("get", r.lawyer, r.id, 200, "", Assigned(r))
                 /\ UNCHANGED <<deletedIds, sent, served>>
            [] r.op = "delete" ->
                 /\ res' = Respond("delete", r.lawyer, r.id, 200,
                                   "Document deleted successfully")
                 /\ deletedIds' = deletedIds \cup {r.id}
                 /\ UNCHANGED <<sent, served>>
  /\ UNCHANGED <<variant, now, nextId, files, nextPath, pg, fb, chat, ui>>

\* The hard variant's delete after the load: fs.unlink, then
\* Document.findByIdAndDelete.
Remove(p) ==
  LET r == inflight[p] IN
  /\ variant = "hard"
  /\ r.pc = "loaded"
  /\ r.op = "delete"
  /\ inflight' = [inflight EXCEPT ![p] = Idle]
  /\ files' = Unlink(files, r.doc.filePath, FALSE)
  /\ docs' = RemoveRecord(r.id)
  /\ deletedIds' = deletedIds \cup {r.id}
  /\ res' = Respond("delete", r.lawyer, r.id, 200, "Document deleted successfully")
  /\ UNCHANGED <<variant, now, nextId, nextPath, sent, pg, served, fb, chat, ui>>

InitConc ==
  /\ variant \in {"soft", "hard"}
  /\ now = 1
  /\ \E body \in {b \in UploadBodies : b.clientId = "K1" /\ ~b.isPublic} :
       docs = (1 :> DocumentCreate(variant,
                      IF variant = "soft"
                      THEN CreateFieldsSoft("L1", body, CHOOSE f \in GoodFiles : f.bytes = "b1", 1)
                      ELSE CreateFieldsHard("L1", body, CHOOSE f \in GoodFiles : f.bytes = "b1", 1)))
  /\ nextId = 2
  /\ files = (1 :> "b1")
  /\ nextPath = 2
  /\ res = NoRes
  /\ deletedIds = {}
  /\ sent = <<>>
  /\ pg = [total |-> 0, limit |-> 1, page |-> 1, done |-> FALSE, out |-> NoPagination]
  /\ inflight = [p \in Procs |-> Idle]
  /\ served = 0
  /\ InitRest

NextConc ==
  \/ \E p \in Procs, op \in ConcOps \ {"update"}, l \in Lawyers : Load(p, op, l, 1, NoPatch)
  \/ \E p \in Procs, l \in Lawyers, patch \in ConcPatches : Load(p, "update", l, 1, patch)
  \/ \E p \in Procs : Access(p)
  \/ \E p \in Procs : Save(p)
  \/ \E p \in Procs : Remove(p)

SpecConc == InitConc /\ [][NextConc]_vars

\* ======================================================= lawyer feedback
\* lawyerFeedbackController.js and the admin page LawyerFeedbackManagement.

\* Every feedback request advances the clock by one.
FbClock == now < MaxFeedbackOps /\ now' = now + 1

FbRespond(op, code, message, id, lawyer) ==
  [NoFbRes EXCEPT !.op = op, !.code = code, !.message = message, !.id = id,
                  !.lawyer = lawyer]

\* The value createLawyerFeedback stores in isApproved; bodyIsApproved is what
\* the request body carries under that key.
CreatedApprovalFromBody(bodyIsApproved) ==
  IF bodyIsApproved = Absent THEN "false" ELSE bodyIsApproved

CreatedApproval(bodyIsApproved) == "false"

\* LawyerFeedback.find({ lawyerId, isApproved: true })
PublicFeedback(store, lawyerId) ==
  {i \in DOMAIN store : store[i].lawyerId = lawyerId /\ store[i].isApproved = "true"}

\* LawyerFeedback.find({ isApproved: false })
PendingFeedback(store) == {i \in DOMAIN store : store[i].isApproved = "false"}

\* LawyerFeedback.findOne({ _id: id, lawyerId, isApproved: true })
FindAnswerable(store, id, lawyerId) ==
  id \in DOMAIN store /\ store[id].lawyerId = lawyerId /\ store[id].isApproved = "true"

\* What findByIdAndUpdate(id, { isApproved }) leaves in isApproved. A key whose
\* value is undefined is either dropped from the update or written as null,
\* depending on the Mongoose release.
ApprovalAfterUpdate(old, given) ==
  IF given = Absent THEN {old, Null} ELSE {given}

createLawyerFeedback(lawyerId, bodyIsApproved, valid, dbFails) ==
  /\ Len(fb.store) < MaxFeedback
  /\ IF ~valid
       THEN fb' = [fb EXCEPT !.res = [FbRespond("create", 400, "Validation errors", 0, lawyerId)
                                        EXCEPT !.given = bodyIsApproved]]
     ELSE IF lawyerId \notin ApprovedLawyers
       THEN fb' = [fb EXCEPT !.res = [FbRespond("create", 404, "Lawyer not found or not approved", 0, lawyerId)
                                        EXCEPT !.given = bodyIsApproved]]
     ELSE IF dbFails
       THEN fb' = [fb EXCEPT !.res = [FbRespond("create", 500, "Failed to submit feedback", 0, lawyerId)
                                        EXCEPT !.given = bodyIsApproved]]
     ELSE fb' = [fb EXCEPT
                   !.store = Append(@, [lawyerId |-> lawyerId,
                                        isApproved |-> CreatedApproval(bodyIsApproved),
                                        response |-> Null,
                                        everApproved |-> FALSE]),
                   !.res = [FbRespond("create", 201,
                                      "Feedback submitted successfully. It will be reviewed before being published.",
                                      Len(fb.store) + 1, lawyerId)
                              EXCEPT !.given = bodyIsApproved]]
  /\ FbClock
  /\ UNCHANGED <<variant, docs, nextId, files, nextPath, res, deletedIds, sent, pg,
                 inflight, served, chat, ui>>

getLawyerFeedback(lawyerId, dbFails) ==
  /\ IF lawyerId \notin FeedbackLawyers
       THEN fb' = [fb EXCEPT !.res = FbRespond("list", 404, "Lawyer not found", 0, lawyerId)]
     ELSE IF dbFails
       THEN fb' = [fb EXCEPT !.res = FbRespond("list", 500, "Failed to fetch feedback", 0, lawyerId)]
     ELSE fb' = [fb EXCEPT !.res = [FbRespond("list", 200, "none", 0, lawyerId)
                                      EXCEPT !.list = PublicFeedback(fb.store, lawyerId)]]
  /\ FbClock
  /\ UNCHANGED <<variant, docs, nextId, files, nextPath, res, deletedIds, sent, pg,
                 inflight, served, chat, ui>>

\* The response of GET /pending.
PendingResponse(store, dbFails) ==
  IF dbFails
    THEN FbRespond("pending", 500, "Failed to fetch pending feedback", 0, Null)
    ELSE [FbRespond("pending", 200, "none", 0, Null) EXCEPT !.list = PendingFeedback(store)]

getPendingFeedback(dbFails) ==
  /\ fb' = [fb EXCEPT !.res = PendingResponse(fb.store, dbFails)]
  /\ FbClock
  /\ UNCHANGED <<variant, docs, nextId, files, nextPath, res, deletedIds, sent, pg,
                 inflight, served, chat, ui>>

\* The store and the response of PUT /:id/approve with body { isApproved: given }.
ApproveOutcomes(store, id, given, dbFails) ==
  IF dbFails
    THEN {[store |-> store,
           res |-> [FbRespond("approve", 500, "Failed to update feedback status", id, Null)
                      EXCEPT !.given = given]]}
  ELSE IF id \notin DOMAIN store
    THEN {[store |-> store,
           res |-> [FbRespond("approve", 404, "Feedback not found", id, Null)
                      EXCEPT !.given = given]]}
  ELSE {[store |-> [store EXCEPT ![id].isApproved = v,
                                 ![id].everApproved = @ \/ v = "true"],
         res |-> [FbRespond("approve", 200,
                            IF given = "true" THEN "Feedback approved successfully"
                                              ELSE "Feedback rejected successfully",
                            id, Null)
                    EXCEPT !.given = given]]
        : v \in ApprovalAfterUpdate(store[id].isApproved, given)}

approveFeedback(id, given, dbFails) ==
  /\ \E o \in ApproveOutcomes(fb.store, id, given, dbFails) :
       fb' = [fb EXCEPT !.store = o.store, !.res = o.res]
  /\ FbClock
  /\ UNCHANGED <<variant, docs, nextId, files, nextPath, res, deletedIds, sent, pg,
                 inflight, served, chat, ui>>

respondToFeedback(lawyerId, id, dbFails) ==
  /\ IF dbFails
       THEN fb' = [fb EXCEPT !.res = FbRespond("respond", 500, "Failed to add response", id, lawyerId)]
     ELSE IF ~FindAnswerable(fb.store, id, lawyerId)
       THEN fb' = [fb EXCEPT !.res = FbRespond("respond", 404, "Feedback not found or not accessible", id, lawyerId)]
     ELSE fb' = [fb EXCEPT !.store[id].response = "response",
                           !.res = FbRespond("respond", 200, "Response added successfully", id, lawyerId)]
  /\ FbClock
  /\ UNCHANGED <<variant, docs, nextId, files, nextPath, res, deletedIds, sent, pg,
                 inflight, served, chat, ui>>

\* The admin page. handleApprove sends PUT /:id/approve with an Authorization
\* header and no body, reports by response.ok, and reloads the pending list.
\* The reload keeps the previous list when GET /pending fails.
PageAfter(page, action, id, ok, okToast, failToast, store, listFails) ==
  [action |-> action, id |-> id,
   toast |-> IF ok THEN okToast ELSE failToast,
   feedback |-> IF ok /\ ~listFails THEN PendingFeedback(store) ELSE page.feedback]

handleApprove(feedbackId, dbFails, listFails) ==
  /\ \E o \in ApproveOutcomes(fb.store, feedbackId, Absent, dbFails) :
       fb' = [store |-> o.store,
              res |-> IF o.res.code = 200 THEN PendingResponse(o.store, listFails) ELSE o.res,
              page |-> PageAfter(fb.page, "approve", feedbackId, o.res.code = 200,
                                 "Feedback approved successfully",
                                 "Failed to approve feedback", o.store, listFails)]
  /\ FbClock
  /\ UNCHANGED <<variant, docs, nextId, files, nextPath, res, deletedIds, sent, pg,
                 inflight, served, chat, ui>>

\* handleReject sends PUT /:id/reject; the router defines no such route, so
\* the framework answers 404 and no handler runs.
handleReject(feedbackId) ==
  /\ fb' = [fb EXCEPT
              !.res = FbRespond("reject", 404, "none", feedbackId, Null),
              !.page = PageAfter(fb.page, "reject", feedbackId, FALSE,
                                 "Feedback rejected successfully",
                                 "Failed to reject feedback", fb.store, FALSE)]
  /\ FbClock
  /\ UNCHANGED <<variant, docs, nextId, files, nextPath, res, deletedIds, sent, pg,
                 inflight, served, chat, ui>>

fetchFeedback(listFails) ==
  /\ fb' = [fb EXCEPT
              !.res = PendingResponse(fb.store, listFails),
              !.page = [action |-> "load", id |-> 0,
                        toast |-> IF listFails THEN "Failed to load lawyer feedback" ELSE "none",
                        feedback |-> IF listFails THEN fb.page.feedback
                                                  ELSE PendingFeedback(fb.store)]]
  /\ FbClock
  /\ UNCHANGED <<variant, docs, nextId, files, nextPath, res, deletedIds, sent, pg,
                 inflight, served, chat, ui>>

FeedbackIds == 1..MaxFeedback

InitFeedback ==
  /\ variant = "soft"
  /\ now = 0
  /\ docs = <<>>
  /\ nextId = 1
  /\ files = <<>>
  /\ nextPath = 1
  /\ res = NoRes
  /\ deletedIds = {}
  /\ sent = <<>>
  /\ pg = [total |-> 0, limit |-> 1, page |-> 1, done |-> FALSE, out |-> NoPagination]
  /\ inflight = [p \in Procs |-> Idle]
  /\ served = 0
  /\ fb = FbInit
  /\ chat = Null
  /\ ui = Null

NextFeedback ==
  \/ \E l \in FeedbackLawyers, b \in {Absent, "true"}, valid \in BOOLEAN, dbFails \in BOOLEAN :
       createLawyerFeedback(l, b, valid, dbFails)
  \/ \E l \in FeedbackLawyers \cup {"L9"}, dbFails \in BOOLEAN : getLawyerFeedback(l, dbFails)
  \/ \E dbFails \in BOOLEAN : getPendingFeedback(dbFails)
  \/ \E id \in FeedbackIds, g \in {Absent, "true", "false"}, dbFails \in BOOLEAN :
       approveFeedback(id, g, dbFails)
  \/ \E l \in ApprovedLawyers, id \in FeedbackIds, dbFails \in BOOLEAN :
       respondToFeedback(l, id, dbFails)
  \/ \E id \in FeedbackIds, dbFails \in BOOLEAN, listFails \in BOOLEAN :
       handleApprove(id, dbFails, listFails)
  \/ \E id \in FeedbackIds : handleReject(id)
  \/ \E listFails \in BOOLEAN : fetchFeedback(listFails)

SpecFeedback == InitFeedback /\ [][NextFeedback]_vars

\* ================================================================== chat
\* GET /api/chat/conversation?lawyerId&userId: the stored messages of one
\* conversation, oldest first.
Conversation(server, userId) == SelectSeq(server, LAMBDA m : m.userId = userId)

RemoveAt(s, i) == [j \in 1..(Len(s) - 1) |-> IF j < i THEN s[j] ELSE s[j + 1]]

\* setMessages(prev => prev.map(m => m._id === optimistic._id ? data : m))
ReplaceTemp(messages, tempId, data) ==
  [j \in 1..Len(messages) |->
     IF messages[j].temp /\ messages[j].id = tempId THEN data ELSE messages[j]]

\* setMessages(prev => prev.filter(m => m._id !== optimistic._id))
DropTemp(messages, tempId) ==
  SelectSeq(messages, LAMBDA m : ~(m.temp /\ m.id = tempId))

\* setSelectedUserId(userId); the effect on [lawyerId, selectedUserId] then
\* runs loadConversation, which issues the GET.
selectConversation(userId) ==
  /\ chat.switches < MaxSwitches
  /\ userId # chat.selectedUserId
  /\ chat' = [chat EXCEPT
                !.selectedUserId = userId,
                !.switches = @ + 1,
                !.reqs = Append(@, [kind |-> "load", userId |-> userId, tempId |-> 0,
                                    state |-> "sent", data |-> <<>>])]
  /\ UNCHANGED <<variant, now, docs, nextId, files, nextPath, res, deletedIds, sent, pg,
                 inflight, served, fb, ui>>

\* handleSendMessage up to its await: the optimistic entry is appended and the
\* POST is issued.
handleSendMessage ==
  /\ chat.sends < MaxSends
  /\ chat.selectedUserId # Null
  /\ chat' = [chat EXCEPT
                !.sends = @ + 1,
                !.messages = Append(@, [temp |-> TRUE, id |-> chat.ms,
                                        userId |-> chat.selectedUserId]),
                !.reqs = Append(@, [kind |-> "send", userId |-> chat.selectedUserId,
                                    tempId |-> chat.ms, state |-> "sent", data |-> <<>>])]
  /\ UNCHANGED <<variant, now, docs, nextId, files, nextPath, res, deletedIds, sent, pg,
                 inflight, served, fb, ui>>

\* Date.now() advances.
Tick ==
  /\ chat.ms < MaxMs
  /\ chat' = [chat EXCEPT !.ms = @ + 1]
  /\ UNCHANGED <<variant, now, docs, nextId, files, nextPath, res, deletedIds, sent, pg,
                 inflight, served, fb, ui>>

\* The chat API handles request i: a send is stored and answered with the
\* stored message, a load is answered with the conversation as it is now;
\* either may fail instead.
ServeChat(i, fails) ==
  /\ i \in DOMAIN chat.reqs
  /\ chat.reqs[i].state = "sent"
  /\ LET r == chat.reqs[i]
         stored == [temp |-> FALSE, id |-> Len(chat.server) + 1, userId |-> r.userId]
     IN  IF fails
           THEN chat' = [chat EXCEPT !.reqs[i].state = "failed"]
         ELSE IF r.kind = "send"
           THEN chat' = [chat EXCEPT !.server = Append(@, stored),
                                     !.reqs[i].state = "ok",
                                     !.reqs[i].data = <<stored>>]
         ELSE chat' = [chat EXCEPT !.reqs[i].state = "ok",
                                   !.reqs[i].data = Conversation(chat.server, r.userId)]
  /\ UNCHANGED <<variant, now, docs, nextId, files, nextPath, res, deletedIds, sent, pg,
                 inflight, served, fb, ui>>

\* The response of request i reaches the page: the continuation after the
\* await of handleSendMessage, respectively of loadConversation.
SettleChat(i) ==
  /\ i \in DOMAIN chat.reqs
  /\ chat.reqs[i].state # "sent"
  /\ LET r == chat.reqs[i]
         shown == IF r.kind = "send"
                    THEN IF r.state = "ok"
                           THEN ReplaceTemp(chat.messages, r.tempId, r.data[1])
                           ELSE DropTemp(chat.messages, r.tempId)
                    ELSE IF r.state = "ok" THEN r.data ELSE chat.messages
     IN  chat' = [chat EXCEPT !.messages = shown, !.reqs = RemoveAt(@, i)]
  /\ UNCHANGED <<variant, now, docs, nextId, files, nextPath, res, deletedIds, sent, pg,
                 inflight, served, fb, ui>>

MaxChatReqs == MaxSends + MaxSwitches

InitChat ==
  /\ variant = "soft"
  /\ now = 0
  /\ docs = <<>>
  /\ nextId = 1
  /\ files = <<>>
  /\ nextPath = 1
  /\ res = NoRes
  /\ deletedIds = {}
  /\ sent = <<>>
  /\ pg = [total |-> 0, limit |-> 1, page |-> 1, done |-> FALSE, out |-> NoPagination]
  /\ inflight = [p \in Procs |-> Idle]
  /\ served = 0
  /\ fb = Null
  /\ chat = ChatInit
  /\ ui = Null

NextChat ==
  \/ \E u \in ChatUsers : selectConversation(u)
  \/ handleSendMessage
  \/ Tick
  \/ \E i \in 1..MaxChatReqs, fails \in BOOLEAN : ServeChat(i, fails)
  \/ \E i \in 1..MaxChatReqs : SettleChat(i)

SpecChat == InitChat /\ [][NextChat]_vars

\* ==================================================== document list page
\* fetchDocuments of LawyerDocuments against getLawyerDocuments of part_002.

\* The parameters fetchDocuments passes to documentService.getLawyerDocuments:
\* a filter set to 'all' and an empty search are sent as undefined.
FetchQuery(page, clientId, status) ==
  [ page |-> page, limit |-> DefaultLimit,
    clientId |-> IF clientId # "all" THEN clientId ELSE Absent,
    status |-> IF status # "all" THEN status ELSE Absent, category |-> Absent, search |-> Absent, sortOrder |-> "desc" ]

\* The body getLawyerDocuments answers a query with.
ListResponse(lawyer, q) ==
  LET matching == SortByCreatedAt({i \in DOMAIN docs : QueryHard(lawyer, q, docs[i])},
                                  q.sortOrder)
      page     == ListPage(matching, q.page, q.limit)
  IN  [documents |-> page.documents, pagination |-> page.pagination,
       stats |-> getLawyerDocumentStats(lawyer)]

\* The effect on [page, filters, sortBy, sortOrder, clientIdFromState] runs
\* fetchDocuments with the state of that render.
IssueFetch(u) ==
  [u EXCEPT !.issued = @ + 1,
            !.latest = "pending",
            !.reqs = Append(@, [seq |-> u.issued + 1,
                                q |-> FetchQuery(u.page, u.clientId, u.status),
                                state |-> "sent", data |-> NoListing])]

\* setFilters(prev => ({ ...prev, clientId: value })), respectively status.
setFilters(clientId, status) ==
  /\ ui.changes < MaxChanges
  /\ (clientId # ui.clientId) # (status # ui.status)
  /\ ui' = IssueFetch([ui EXCEPT !.clientId = clientId, !.status = status,
                                 !.changes = @ + 1])
  /\ UNCHANGED <<variant, now, docs, nextId, files, nextPath, res, deletedIds, sent, pg,
                 inflight, served, fb, chat>>

\* The server answers fetch i, or fails.
ServeList(i, fails) ==
  /\ i \in DOMAIN ui.reqs
  /\ ui.reqs[i].state = "sent"
  /\ ui' = [ui EXCEPT
              !.reqs[i].state = IF fails THEN "failed" ELSE "ok",
              !.reqs[i].data = IF fails THEN NoListing ELSE ListResponse("L1", ui.reqs[i].q)]
  /\ UNCHANGED <<variant, now, docs, nextId, files, nextPath, res, deletedIds, sent, pg,
                 inflight, served, fb, chat>>

\* fetchDocuments after its await: setDocuments, setPagination, setStats of
\* the response; a failed fetch only raises a toast.
SettleList(i) ==
  /\ i \in DOMAIN ui.reqs
  /\ ui.reqs[i].state # "sent"
  /\ LET r == ui.reqs[i]
     IN  ui' = [ui EXCEPT
                  !.shown = IF r.state = "ok" THEN r.data ELSE @,
                  !.latest = IF r.seq = ui.issued THEN r.state ELSE @,
                  !.reqs = RemoveAt(@, i)]
  /\ UNCHANGED <<variant, now, docs, nextId, files, nextPath, res, deletedIds, sent, pg,
                 inflight, served, fb, chat>>

\* The page has mounted and issued its first fetch; the lawyer has one
\* document for each of two clients.
InitList ==
  /\ variant = "hard"
  /\ now = 0
  /\ docs = [i \in 1..2 |->
               DocumentCreate("hard",
                 CreateFieldsHard("L1",
                   CHOOSE b \in UploadBodies : b.clientId = (IF i = 1 THEN "K1" ELSE "K2") /\ ~b.isPublic,
                   CHOOSE f \in GoodFiles : f.bytes = "b1", i))]
  /\ nextId = 3
  /\ files = [i \in 1..2 |-> "b1"]
  /\ nextPath = 3
  /\ res = NoRes
  /\ deletedIds = {}
  /\ sent = <<>>
  /\ pg = [total |-> 0, limit |-> 1, page |-> 1, done |-> FALSE, out |-> NoPagination]
  /\ inflight = [p \in Procs |-> Idle]
  /\ served = 0
  /\ fb = Null
  /\ chat = Null
  /\ ui = IssueFetch(UiInit)

NextList ==
  \/ \E c \in {"all", "K1", "K2"}, st \in {"all", "approved"} : setFilters(c, st)
  \/ \E i \in 1..(MaxChanges + 1), fails \in BOOLEAN : ServeList(i, fails)
  \/ \E i \in 1..(MaxChanges + 1) : SettleList(i)

SpecList == InitList /\ [][NextList]_vars

\* ================================================================ properties
\* A step of Next is exactly one handled request, and `res` then describes it.
Handled(op) == now' = now + 1 /\ res'.op = op

\* The documents of a lawyer that no delete request has succeeded on.
Live(lawyer, scope) ==
  {i \in DOMAIN docs :
     /\ docs[i].lawyerId = lawyer
     /\ i \notin deletedIds
     /\ (scope # Absent => docs[i].clientId = scope)}

HasRelationshipRecord(lawyer, client) ==
  \E r \in LawyerClient : r.lawyerId = lawyer /\ r.clientId = client

HasValidRelationship(lawyer, client) ==
  \E r \in LawyerClient :
    /\ r.lawyerId = lawyer /\ r.clientId = client
    /\ r.isArchived = FALSE /\ r.status \in {"active", "pending"}

\* C1: every stored document has isPublic = FALSE, whatever visibility the
\* upload request carried and whatever requests followed, and so has every
\* document a response returns.
C1_IsPublicAlwaysFalse ==
  /\ \A i \in DOMAIN docs : docs[i].isPublic = FALSE
  /\ (res.hasData => res.data.isPublic = FALSE)

C1_Witness ==
  /\ res.op = "upload" /\ res.code = 201 /\ res.reqIsPublic = TRUE
  /\ HasValidRelationship(res.lawyer, res.clientId)
  /\ res.id \in DOMAIN docs

\* C2: once a delete request has succeeded on a document, no list response
\* contains it, no fetch or download of it succeeds, and no stats (of the
\* stats endpoint or inside a list response) count it.
C2_DeletedNeverSurfaces ==
  /\ (res.op = "list" /\ res.code = 200) =>
        /\ Range(res.documents) \cap deletedIds = {}
        /\ res.pagination.totalItems <= Cardinality(Live(res.lawyer, Absent))
  /\ (res.op \in {"get", "download"} /\ res.id \in deletedIds) =>
        (res.code = 404 /\ ~res.hasData /\ res.bytes = Null)
  /\ (res.op \in {"list", "stats"} /\ res.code = 200) =>
        res.stats.totalDocuments = Cardinality(Live(res.lawyer, res.scope))

C2_Witness ==
  /\ variant = "soft" /\ res.op = "list" /\ res.code = 200
  /\ \E i \in deletedIds : docs[i].lawyerId = res.lawyer

\* C3: every document in a list response belongs to the lawyer who asked.
C3_ListOnlyOwnDocuments ==
  (res.op = "list" /\ res.code = 200) =>
     \A k \in 1..Len(res.documents) :
        /\ res.documents[k] \in DOMAIN docs
        /\ docs[res.documents[k]].lawyerId = res.lawyer

C3_Witness ==
  /\ res.op = "list" /\ res.code = 200 /\ res.lawyer = "L2"
  /\ Cardinality({i \in DOMAIN docs :
                    docs[i].lawyerId = "L1" /\ docs[i].isDeleted = FALSE}) = 2

\* C4: a successful download raises the document's downloadCount by exactly
\* one and delivers the content every earlier download of it delivered.
C4_DownloadCountsOnce ==
  [][ (Handled("download") /\ res'.code = 200) =>
        /\ docs'[res'.id].downloadCount = docs[res'.id].downloadCount + 1
        /\ sent'[res'.id] = {res'.bytes} ]_vars

C4_Witness ==
  /\ res.op = "download" /\ res.code = 200
  /\ res.id \in DOMAIN docs
  /\ docs[res.id].downloadCount = 2
  /\ sent[res.id] = {res.bytes}

\* C5 (as claimed): an update that moves the status into reviewed, approved
\* or rejected leaves reviewedBy = the caller and reviewedAt set.
C5_ReviewStampOnTransition ==
  [][ \A i \in DOMAIN docs \cap DOMAIN docs' :
        ( /\ Handled("update") /\ res'.id = i
          /\ docs'[i].status # docs[i].status
          /\ docs'[i].status \in ReviewStatuses )
        => (docs'[i].reviewedBy = res'.lawyer /\ docs'[i].reviewedAt # NoDate) ]_vars

\* C6: an update that leaves the status as it was leaves reviewedAt and
\* reviewedBy as they were.
C6_NoStampWithoutStatusChange ==
  [][ \A i \in DOMAIN docs \cap DOMAIN docs' :
        (Handled("update") /\ docs'[i].status = docs[i].status)
        => /\ docs'[i].reviewedAt = docs[i].reviewedAt
           /\ docs'[i].reviewedBy = docs[i].reviewedBy ]_vars

C6_Witness ==
  /\ res.op = "update" /\ res.code = 200
  /\ res.id \in DOMAIN docs
  /\ docs[res.id].reviewedAt # NoDate
  /\ docs[res.id].reviewedAt < now - 1

\* C7 (as claimed): an otherwise acceptable upload for a client without any
\* relationship record gets 404 and leaves no record and no file.
C7_NoRelationshipLeavesNothing ==
  [][ ( /\ Handled("upload") /\ res'.fault = "none"
        /\ res'.filePresent /\ res'.mimetype \in allowedTypes
        /\ ~HasRelationshipRecord(res'.lawyer, res'.clientId) )
      => (res'.code = 404 /\ docs' = docs /\ files' = files) ]_vars

\* C8 (as claimed): when the Document write or the populate after it fails,
\* the file the request stored is removed again and no record remains.
C8_FailedCreateLeavesNothing ==
  [][ ( /\ Handled("upload") /\ res'.fault \in {"create", "populate"}
        /\ nextPath' # nextPath )
      => (docs' = docs /\ files' = files) ]_vars

\* C9: an upload of a file whose type is not allowed is rejected without a
\* write to the file store and without a record; the rejection is the 400 of
\* the file filter when nothing else is wrong with the request.
C9_BadTypeRejectedBeforeWrite ==
  [][ ( /\ Handled("upload") /\ res'.filePresent
        /\ res'.mimetype \notin allowedTypes )
      => /\ files' = files /\ nextPath' = nextPath /\ docs' = docs
         /\ res'.code \in {400, 404}
         /\ (res'.fault = "none" /\ HasValidRelationship(res'.lawyer, res'.clientId))
               => (res'.code = 400 /\ res'.message = "Invalid file type") ]_vars

C9_Witness ==
  /\ variant = "soft" /\ res.op = "upload"
  /\ res.filePresent /\ res.mimetype = "text/html"
  /\ HasValidRelationship(res.lawyer, res.clientId)
  /\ res.code = 400 /\ res.message = "Invalid file type"
  /\ files = <<>> /\ docs = <<>>

\* The number of pages needed for `total` items, `limit` to a page.
PagesNeeded(total, limit) ==
  CHOOSE n \in 0..total : n * limit >= total /\ (n > 0 => (n - 1) * limit < total)

\* C10: the pagination of a list response over `total` matching documents:
\* totalItems = total, totalPages = ceil(total / limit), hasPrev = (page > 1)
\* and hasNext = (page < totalPages); 45 items by 20 are 3 pages.
C10_PaginationMath ==
  pg.done =>
    /\ pg.out.currentPage = pg.page
    /\ pg.out.totalItems = pg.total
    /\ pg.out.totalPages = PagesNeeded(pg.total, pg.limit)
    /\ pg.out.hasPrev = (pg.page > 1)
    /\ pg.out.hasNext = (pg.page < pg.out.totalPages)
    /\ (pg.total = 45 /\ pg.limit = 20) =>
          /\ pg.out.totalPages = 3
          /\ (pg.page = 1 => (pg.out.hasNext /\ ~pg.out.hasPrev))
          /\ (pg.page = 3 => (~pg.out.hasNext /\ pg.out.hasPrev))

C10_Witness ==
  /\ pg.done /\ pg.total = 45 /\ pg.limit = 20 /\ pg.page = 3
  /\ pg.out.totalPages = 3 /\ ~pg.out.hasNext /\ pg.out.hasPrev

\* ---------------------------------------------------------------- C11
\* The term occurs, whatever the case of its letters, in the title, the
\* description, the original file name or a tag of the document.
InSearchableText(d, term) ==
  \E text \in {d.title, d.description, d.originalFileName} \cup d.tags :
    RegexI(text, term)

ByIdOps == {"get", "update", "delete", "download"}

\* C12: a request by id (fetch, update, delete, download) of a lawyer for a
\* document another lawyer owns is answered 404 'Document not found', the
\* answer a non-existent id gets, and leaves every record and file as it was.
C12_ForeignDocumentLooksAbsent ==
  [][ \A op \in ByIdOps :
        ( /\ Handled(op)
          /\ res'.fault # "invalid"
          /\ res'.id \in DOMAIN docs
          /\ docs[res'.id].lawyerId # res'.lawyer )
        => /\ res'.code = 404
           /\ res'.message = "Document not found"
           /\ docs' = docs
           /\ files' = files ]_vars

\* A delete request for another lawyer's document has been refused.
C12_Witness ==
  /\ res.op = "delete"
  /\ res.code = 404
  /\ res.id \in DOMAIN docs
  /\ docs[res.id].lawyerId # res.lawyer
  /\ FileExists(files, docs[res.id].filePath)

\* ---------------------------------------------------------------- C13
\* C13: every document request that fails is answered: whatever the failure
\* path of upload, list, fetch, download, update or delete, the request has
\* received a response (a status code and a message) once it has been
\* handled, and is never left without one.
C13_EveryRequestAnswered ==
  res.op # "none" => (res.code # 0 /\ (res.code >= 400 => res.message # ""))

\* ---------------------------------------------------------------- C14
FileNotFoundMessages == {"Document file not found", "File not found on server"}

\* The record exists, belongs to the caller and is not deleted, but its file
\* is not in the store.
RecordWithoutFile(lawyer, id) ==
  /\ id \in DOMAIN docs
  /\ docs[id].lawyerId = lawyer
  /\ id \notin deletedIds
  /\ docs[id].filePath \notin DOMAIN files

\* C14: a download of a document whose record exists, belongs to the caller
\* and is not deleted, but whose file is missing, fails with a 'file not
\* found' error that differs from 'Document not found', and leaves
\* downloadCount and the last-download and last-access fields as they were.
C14_MissingFileIsItsOwnError ==
  [][ (Handled("download") /\ RecordWithoutFile(res'.lawyer, res'.id))
      => /\ res'.code = 404
         /\ res'.message \in FileNotFoundMessages
         /\ res'.message # "Document not found"
         /\ res'.id \in DOMAIN docs'
         /\ docs'[res'.id].downloadCount = docs[res'.id].downloadCount
         /\ docs'[res'.id].lastDownloadedAt = docs[res'.id].lastDownloadedAt
         /\ docs'[res'.id].lastDownloadedBy = docs[res'.id].lastDownloadedBy
         /\ docs'[res'.id].lastAccessed = docs[res'.id].lastAccessed
         /\ sent' = sent ]_vars

\* A download has been refused because the file of an existing record is
\* missing.
C14_Witness ==
  /\ res.op = "download"
  /\ res.message \in FileNotFoundMessages
  /\ RecordWithoutFile(res.lawyer, res.id)
  /\ docs[res.id].downloadCount = 0

\* ---------------------------------------------------------------- C15
RECURSIVE SumOver(_, _)
SumOver(f, S) ==
  IF S = {} THEN 0
  ELSE LET x == CHOOSE y \in S : TRUE
       IN  f[x] + SumOver(f, S \ {x})

\* The client a list or stats request restricts itself to, if any.
RequestedClient == IF res.clientId = "all" THEN Absent ELSE res.clientId

\* C15: the stats of the stats endpoint and those embedded in a list
\* response, for lawyer L and restricted to client C when the request names
\* one, count L's non-deleted documents in that scope, sum their file sizes,
\* and break them down by status and by category so that each breakdown
\* sums to the count; with no document in scope all are zero or empty.
C15_StatsMatchScope ==
  (res.op \in {"stats", "list"} /\ res.code = 200)
    => LET S == Live(res.lawyer, RequestedClient)
           st == res.stats
       IN  /\ st.totalDocuments = Cardinality(S)
           /\ st.totalSize = SumOver([i \in S |-> docs[i].fileSize], S)
           /\ SumOver(st.byStatus, DOMAIN st.byStatus) = st.totalDocuments
           /\ SumOver(st.byCategory, DOMAIN st.byCategory) = st.totalDocuments
           /\ (S = {} => st = NoStats)

\* ---------------------------------------------------------------- C16
PatchFields == {"title", "description", "category", "priority", "tags", "status",
                "reviewNotes"}

FrameFields == {"originalFileName", "filePath", "fileSize", "mimeType", "lawyerId",
                "clientId", "uploadedBy", "downloadCount", "isPublic", "isDeleted"}

\* C16: an update changes only fields its body carries: each of title,
\* description, category, priority, tags, status and review notes that the
\* body does not carry keeps its value, and the file metadata, lawyerId,
\* clientId, uploadedBy, downloadCount, isPublic and isDeleted of every
\* document are the same after the update as before.
C16_UpdateTouchesOnlyPatchedFields ==
  [][ Handled("update")
      => /\ DOMAIN docs' = DOMAIN docs
         /\ \A i \in DOMAIN docs :
              /\ \A f \in FrameFields : docs'[i][f] = docs[i][f]
              /\ \A f \in PatchFields :
                   (i # res'.id \/ res'.patch[f] = Absent) => docs'[i][f] = docs[i][f] ]_vars

\* An update that carried a title and tags, and nothing else, has changed
\* both and has left the description and the category the upload set.
C16_Witness ==
  /\ res.op = "update"
  /\ res.code = 200
  /\ res.patch = [NoPatch EXCEPT !.title = "Deed", !.tags = "Will, Tax"]
  /\ docs[1].title = "Deed"
  /\ docs[1].tags = {"Will", "Tax"}
  /\ docs[1].description = "Tax"
  /\ docs[1].category = "evidence"

\* ---------------------------------------------------------------- C17
Quiet == \A p \in Procs : inflight[p].pc = "idle"

\* C17: the download counter is incremented atomically: whatever the
\* interleaving of concurrent successful downloads of a document, once they
\* have all been answered its downloadCount has grown by their number, and
\* no increment is lost.
C17_NoLostIncrement ==
  (Quiet /\ 1 \in DOMAIN docs) => docs[1].downloadCount = served

\* ---------------------------------------------------------------- C18
\* C18: in every behaviour, interleavings of concurrent download, update,
\* fetch and delete requests included, the stored downloadCount of a
\* document never decreases from one state to the next, and it changes only
\* in a step of a successful download.
C18_DownloadCountMonotonic ==
  [][ \A i \in DOMAIN docs \cap DOMAIN docs' :
        /\ docs'[i].downloadCount >= docs[i].downloadCount
        /\ docs'[i].downloadCount # docs[i].downloadCount
             => (res'.op = "download" /\ res'.code = 200 /\ res'.id = i) ]_vars

\* ---------------------------------------------------------------- C19
HasReviewDate(d) == d.reviewedAt # NoDate

HasReviewer(d) == d.reviewedBy # Null

\* The step changes the status of document i into a review status.
EntersReview(i) ==
  /\ i \in DOMAIN docs
  /\ i \in DOMAIN docs'
  /\ docs'[i].status # docs[i].status
  /\ docs'[i].status \in ReviewStatuses

\* C19: reviewedAt and reviewedBy of a document are both set if its status
\* has at least once changed into reviewed, approved or rejected, and both
\* unset otherwise; reviewedAt is set exactly when reviewedBy is set.  As a
\* property of every step: a document is created with both unset, a change
\* of status into a review status leaves both set, nothing else sets either,
\* and after every step one is set exactly when the other is.
C19_ReviewStampIffReviewed ==
  [][ \A i \in DOMAIN docs' :
        /\ HasReviewDate(docs'[i]) <=> HasReviewer(docs'[i])
        /\ EntersReview(i) => (HasReviewDate(docs'[i]) /\ HasReviewer(docs'[i]))
        /\ i \notin DOMAIN docs => (~HasReviewDate(docs'[i]) /\ ~HasReviewer(docs'[i]))
        /\ ( /\ i \in DOMAIN docs
             /\ \/ HasReviewDate(docs'[i]) /\ ~HasReviewDate(docs[i])
                \/ HasReviewer(docs'[i]) /\ ~HasReviewer(docs[i]) )
           => EntersReview(i) ]_vars

\* ---------------------------------------------------------------- C20
\* C20: an update changes the review notes of a document only when its body
\* carries review notes and the same update changes the status into
\* reviewed, approved or rejected; an update without such a change of
\* status leaves the review notes as they were.
C20_NotesOnlyWithTransition ==
  [][ Handled("update")
      => \A i \in DOMAIN docs \cap DOMAIN docs' :
           docs'[i].reviewNotes # docs[i].reviewNotes
             => /\ i = res'.id
                /\ res'.patch.reviewNotes # Absent
                /\ EntersReview(i) ]_vars

\* ---------------------------------------------------------------- C21
\* C21: when the save of downloadCount and of the last-download fields
\* fails during a download, the bytes of the file are still delivered to
\* the caller: the failure to persist does not fail the download.
C21_SaveFailureStillDelivers ==
  [][ (Handled("download") /\ res'.fault = "save")
      => /\ res'.id \in DOMAIN docs
         /\ res'.bytes = StreamedFile(docs[res'.id])
         /\ res'.bytes # Null
         /\ res'.id \in DOMAIN sent'
         /\ res'.bytes \in sent'[res'.id] ]_vars

\* ---------------------------------------------------------------- C22
\* C22: an upload creates a Document only if a relationship record links the
\* calling lawyer and the target client that is not archived and whose
\* status is active or pending; with an archived relationship, or one of
\* another status, an otherwise acceptable upload fails with 404 and no
\* Document is created.
C22_UploadNeedsLiveRelationship ==
  [][ Handled("upload")
      => /\ docs' # docs => HasValidRelationship(res'.lawyer, res'.clientId)
         /\ ( /\ res'.fault = "none" /\ res'.filePresent
              /\ res'.mimetype \in allowedTypes
              /\ ~HasValidRelationship(res'.lawyer, res'.clientId) )
            => (res'.code = 404 /\ docs' = docs) ]_vars

\* ---------------------------------------------------------------- C23
\* C23: in the hard-delete variant a delete by the owning lawyer removes the
\* Document record also when the removal of the file fails, for instance
\* because the file is already absent, and the request reports success.
C23_HardDeleteDespiteUnlinkFailure ==
  [][ (variant = "hard" /\ Handled("delete") /\ res'.fault = "unlink")
      => /\ res'.id \in DOMAIN docs
         /\ docs[res'.id].lawyerId = res'.lawyer
         /\ res'.id \notin DOMAIN docs'
         /\ res'.code = 200
         /\ res'.message = "Document deleted successfully" ]_vars

\* A delete has succeeded although the file could not be removed: no record
\* is left and a file is still in the store.
C23_Witness ==
  /\ variant = "hard"
  /\ res.op = "delete"
  /\ res.fault = "unlink"
  /\ res.code = 200
  /\ res.id \in deletedIds
  /\ docs = <<>>
  /\ files # <<>>

\* ---------------------------------------------------------------- C24
\* The step is the save of an update that was in flight.
UpdateSaves ==
  \E p \in Procs :
    /\ inflight[p].op = "update"
    /\ inflight[p].pc = "loaded"
    /\ inflight'[p].pc = "idle"

\* C24: when two updates of the owning lawyer on the same document
\* interleave, neither fails because of the other, and once both have saved
\* every field both patched holds the value of the update that saved last.
\* As a property of the later save: it follows a successful update of the
\* same document, it succeeds, and the title and the status it patched, if
\* the earlier update patched them too, are the stored ones.
C24_LastWriteWins ==
  [][ (UpdateSaves /\ res.op = "update" /\ res.code = 200 /\ res'.id = res.id)
      => /\ res'.op = "update"
         /\ res'.code = 200
         /\ \A f \in {"title", "status"} :
              (res.patch[f] # Absent /\ res'.patch[f] # Absent)
                => docs'[res'.id][f] = res'.patch[f] ]_vars

\* ---------------------------------------------------------------- C25
\* C25: every Document record a query can return, that is every record in
\* the store that is not soft-deleted, has its file in the file store at its
\* filePath, after any sequence of uploads, updates, downloads and deletes,
\* those with a failing database or file step included.
C25_RecordHasItsFile ==
  \A i \in DOMAIN docs :
    docs[i].isDeleted = FALSE => FileExists(files, docs[i].filePath)

\* ---------------------------------------------------------------- C26
\* C26: in the soft-delete variant deletion is final: a document with
\* isDeleted = TRUE keeps it in every later state, its record and its file
\* stay in the stores, and every update, download, fetch or delete of it
\* handled afterwards is answered 404 and changes no field of the record,
\* so that a second delete of the same document is answered 404.
C26_SoftDeleteIsTerminal ==
  [][ variant = "soft" =>
        \A i \in DOMAIN docs :
          docs[i].isDeleted = TRUE
            => /\ i \in DOMAIN docs'
               /\ docs'[i].isDeleted = TRUE
               /\ FileExists(files, docs[i].filePath) => FileExists(files', docs[i].filePath)
               /\ \A op \in ByIdOps :
                    (Handled(op) /\ res'.id = i /\ res'.fault # "invalid")
                      => (res'.code = 404 /\ docs'[i] = docs[i]) ]_vars

\* A second delete of a soft-deleted document has been answered 404 by its
\* owner's request, and the record and the file are still there.
C26_Witness ==
  /\ variant = "soft"
  /\ res.op = "delete"
  /\ res.code = 404
  /\ res.id \in deletedIds
  /\ docs[res.id].isDeleted = TRUE
  /\ docs[res.id].lawyerId = res.lawyer
  /\ FileExists(files, docs[res.id].filePath)

\* ---------------------------------------------------------------- C27
\* C27: a feedback created by createLawyerFeedback starts with isApproved
\* false whatever the body carries; getLawyerFeedback lists only feedback whose
\* isApproved is true; respondToFeedback succeeds only on feedback that is
\* approved and addressed to the calling lawyer; so a feedback that no
\* approveFeedback call has approved is never listed publicly nor answered.
C27_FeedbackModerationGate ==
  [][ /\ \A i \in DOMAIN fb'.store \ DOMAIN fb.store :
           fb'.store[i].isApproved = "false"
      /\ (fb'.res.op = "list" /\ fb'.res.code = 200)
           => \A i \in fb'.res.list :
                /\ fb.store[i].isApproved = "true"
                /\ fb.store[i].everApproved
                /\ fb.store[i].lawyerId = fb'.res.lawyer
      /\ (fb'.res.op = "respond" /\ fb'.res.code = 200)
           => /\ fb'.res.id \in DOMAIN fb.store
              /\ fb.store[fb'.res.id].isApproved = "true"
              /\ fb.store[fb'.res.id].everApproved
              /\ fb.store[fb'.res.id].lawyerId = fb'.res.lawyer
      /\ \A i \in DOMAIN fb'.store :
           ~fb'.store[i].everApproved => fb'.store[i].response = Null ]_vars

\* A lawyer with one approved and one pending feedback is listed: only the
\* approved one is returned.
C27_Witness ==
  /\ fb.res.op = "list"
  /\ fb.res.code = 200
  /\ fb.res.list # {}
  /\ \E j \in DOMAIN fb.store :
       /\ fb.store[j].lawyerId = fb.res.lawyer
       /\ fb.store[j].isApproved = "false"
       /\ j \notin fb.res.list

\* ---------------------------------------------------------------- C28
\* The step is a click on Approve, respectively Reject, for feedback id.
ApproveClicked(id) ==
  \E dbFails \in BOOLEAN, listFails \in BOOLEAN : handleApprove(id, dbFails, listFails)

RejectClicked(id) == handleReject(id)

\* C28: whenever the page's Approve action on a pending feedback reports
\* success, the stored feedback has isApproved true and is not in the next
\* pending list; whenever its Reject action reports success, the stored
\* feedback has isApproved false.
C28_ModerationRoundTrip ==
  [][ \A id \in DOMAIN fb.store :
        /\ ( /\ fb.store[id].isApproved = "false"
             /\ ApproveClicked(id)
             /\ fb'.page.toast = "Feedback approved successfully" )
             => /\ fb'.store[id].isApproved = "true"
                /\ id \notin PendingFeedback(fb'.store)
        /\ ( /\ fb.store[id].isApproved = "false"
             /\ RejectClicked(id)
             /\ fb'.page.toast = "Feedback rejected successfully" )
             => fb'.store[id].isApproved = "false" ]_vars

\* ---------------------------------------------------------------- C29
\* Every request of the chat page has settled.
ChatQuiet == chat.reqs = <<>>

\* The entries of the displayed list that equal message m.
Shown(m) == {j \in DOMAIN chat.messages : chat.messages[j] = m}

\* C29: for any interleaving of sends, conversation loads and conversation
\* switches, once all requests have settled the displayed list holds no entry
\* with a temporary id, every successfully sent message of the selected
\* conversation appears exactly once as the server's copy, and a failed send
\* has left no entry (no entry other than a stored message is displayed).
C29_OptimisticSendSettles ==
  ChatQuiet
    => /\ \A j \in DOMAIN chat.messages : ~chat.messages[j].temp
       /\ \A k \in DOMAIN chat.server :
            chat.server[k].userId = chat.selectedUserId
              => Cardinality(Shown(chat.server[k])) = 1
       /\ \A j \in DOMAIN chat.messages :
            \E k \in DOMAIN chat.server : chat.messages[j] = chat.server[k]

\* ---------------------------------------------------------------- C30
\* Every fetch of the list page has settled.
ListQuiet == ui.reqs = <<>>

\* C30: when the filters (or page, sort, client selection) change several
\* times in a row and the fetches complete in any order, then after all of
\* them have settled the displayed documents, pagination and stats are those
\* of the response to the most recently issued request, that is, of the
\* current page and filters (stated for a most recent request that was
\* answered).
C30_ListShowsLatestRequest ==
  (ListQuiet /\ ui.latest = "ok")
    => ui.shown = ListResponse("L1", FetchQuery(ui.page, ui.clientId, ui.status))

====
